---- MODULE Spec2Model ----
(***************************************************************************)
(* Model of the agent turn loop (agent/agent.py) and of the conversation   *)
(* context manager (context/manager.py).                                   *)
(*                                                                         *)
(* Python lists are 0-indexed, TLA+ sequences 1-indexed: the message with  *)
(* Python index k is messages[k + 1].  Index parameters and the captured   *)
(* assistant_message_index keep their Python (0-based) values.             *)
(***************************************************************************)
EXTENDS Integers, Sequences, FiniteSets, TLC

VARIABLES
    messages,       \* ContextManager._messages
    returned,       \* the list returned by the latest get_messages() call
    latest_usage,   \* ContextManager._latest_usage (total_tokens)
    total_usage,    \* ContextManager.total_usage (total_tokens)
    max_turns,      \* Config.max_turns
    pc,             \* where the run() generator stands
    runs,           \* number of run() calls made on the agent
    requests,       \* number of chat_completion requests made on the agent
    run_requests,   \* number of chat_completion requests of the current run()
    turn_count,     \* the session's turn counter (Session.increment_turn)
    turn_num,       \* number of loop iterations the current run() has begun
    stream,         \* the events of the current turn's completion stream
    stream_pos,     \* number of events of stream the loop has consumed
    response_text,  \* _agentic_loop: response_text
    tool_calls,     \* _agentic_loop: tool_calls
    usage,          \* _agentic_loop: usage (<<>> is None)
    assistant_message_index,   \* _agentic_loop: assistant_message_index
    tool_call_results,         \* _agentic_loop: tool_call_results
    call_index,     \* _agentic_loop: position of the for loop over tool_calls
    result,         \* _agentic_loop: result of the call being dispatched
    final_response, \* run(): final_response
    history,        \* the loop detector's record of recent actions
    events,         \* the events the current run() has yielded
    consumer_acted, \* the consumer has handled the event it was handed
    last_exit,      \* how the latest finished run() ended: exhausted, or
                    \* closed by the consumer
    invocations,    \* log of the ToolRegistry.invoke calls and what they did
    usage_log,      \* log of the add_usage calls
    session,        \* Agent.session
    client,         \* the chat client of the session
    mcp_manager,    \* the MCP manager of the session
    block,          \* where the consumer stands: before, inside or behind its
                    \* `async with Agent(...)` block
    phase,          \* OSSWorkflow.state.phase
    issue_url,      \* OSSWorkflow.state.issue_url
    issue_number,   \* OSSWorkflow.state.issue_number
    branch_name,    \* OSSWorkflow.state.branch_name
    changes_made,   \* OSSWorkflow.state.changes_made
    wf_call,        \* the latest call made on the workflow and how it ended
    _workflows,     \* WorkflowOrchestratorTool._workflows: the workflow the tool
                    \* keeps for the repository, once it has made one
    continue_message,  \* oss_fix: the continuation message injected last
    memory_files,   \* the files of BranchMemoryManager.memory_dir
    loaded,         \* the latest load_branch() call and what it returned
    saved,          \* per branch name, the memory save_branch() saved last
    branches,       \* the local branches of the git repository
    active_branch,  \* the branch the repository has checked out
    remote_heads,   \* the branches of the remote and where each came from
    pull_requests,  \* the head branches of the pull requests made on GitHub
    tool_result     \* the latest OSS tool invocation and its ToolResult

cmVars == <<messages, returned, latest_usage, total_usage>>

\* the locals of run() and _agentic_loop()
localVars == <<turn_num, stream, stream_pos, response_text, tool_calls, usage,
               assistant_message_index, tool_call_results, call_index, result,
               final_response>>

logVars == <<last_exit, invocations, usage_log>>

agentVars == <<max_turns, pc, runs, requests, run_requests, turn_count, history,
               events, consumer_acted, logVars, localVars>>

lifeVars == <<session, client, mcp_manager, block>>

\* the OSS workflow of a repository
wfVars == <<phase, issue_url, issue_number, branch_name, changes_made, wf_call,
            _workflows, continue_message>>

\* the branch memory of a repository
memVars == <<memory_files, loaded, saved>>

\* the git repository the git tools work on
gitVars == <<branches, active_branch, remote_heads, pull_requests, tool_result>>

ossVars == <<wfVars, memVars, gitVars>>

vars == <<cmVars, agentVars, lifeVars, ossVars>>

(***************************************************************************)
(* Bounds of the model.                                                    *)
(***************************************************************************)
\* the add_* operations stop at this transcript length
MaxMsgs == 4

(***************************************************************************)
(* Values.                                                                 *)
(***************************************************************************)
None == "None"          \* Python's None, for the optional string fields

PRUNE_PROTECT_TOKENS == 40000

PRUNE_MINIMUM_TOKENS == 20000

SystemPrompt == "system prompt"

UserText == "fix the bug"

ManualResult == "manual result"

BigOutput == "big output"

MediumOutput == "medium output"

HugeOutput == "huge output"

LongUserText == "a very long pasted log"

PrunedPlaceholder == "[Old tool result content cleared]"

\* utils.text.count_tokens: an estimate of the number of tokens of a text
CountTokens(content) ==
    IF content = "" THEN 0
    ELSE IF content = BigOutput THEN 25000
    ELSE IF content = MediumOutput THEN 15000
    ELSE IF content = HugeOutput THEN 45000
    ELSE IF content = LongUserText THEN 900000
    ELSE 10

\* Python truthiness of an optional string
Truthy(s) == s /= None /\ s /= ""

\* one entry of an assistant message's tool_calls list
ToolCallDict(id, name) == [id |-> id, name |-> name]

MessageItem(role, content, tool_call_id, calls) ==
    [role         |-> role,
     content      |-> content,
     tool_call_id |-> tool_call_id,
     tool_calls   |-> calls,
     token_count  |-> CountTokens(content),
     pruned_at    |-> None]

\* MessageItem.to_dict: tool_call_id and tool_calls are left out when falsy
\* (None / <<>> here), content is always present
to_dict(item) ==
    [role         |-> item.role,
     tool_call_id |-> IF Truthy(item.tool_call_id) THEN item.tool_call_id ELSE None,
     tool_calls   |-> item.tool_calls,
     content      |-> IF item.content /= None THEN item.content ELSE ""]

\* tools.base.ToolResult
ToolResult(success, output, error) ==
    [success |-> success, output |-> output, error |-> error]

error_result(error, output) == ToolResult(FALSE, output, error)

success_result(output) == ToolResult(TRUE, output, None)

\* the value of the local `result` while no call is being dispatched
NoResult == ToolResult(FALSE, "", "")

\* ToolResult.to_model_output: the text shown to the model
to_model_output(res) ==
    IF res.success THEN res.output ELSE "Error: " \o res.error

NotProcessedOutput == to_model_output(error_result("Tool call was not processed", ""))

(***************************************************************************)
(* Sequence helpers.                                                       *)
(***************************************************************************)
\* list.insert(pos, x) for pos >= 0 (a position past the end appends)
ListInsert(s, pos, x) ==
    IF pos >= Len(s) THEN Append(s, x)
    ELSE SubSeq(s, 1, pos) \o <<x>> \o SubSeq(s, pos + 1, Len(s))

RECURSIVE Perms(_)
\* every order in which the elements of a set can be iterated
Perms(S) ==
    IF S = {} THEN {<<>>}
    ELSE UNION {{<<x>> \o p : p \in Perms(S \ {x})} : x \in S}

Range(s) == {s[k] : k \in 1..Len(s)}

(***************************************************************************)
(* ContextManager.                                                         *)
(***************************************************************************)
\* add_user_message
add_user_message(msgs, content) ==
    Append(msgs, MessageItem("user", content, None, <<>>))

\* add_assistant_message: content None is stored as ""
add_assistant_message(msgs, content, calls) ==
    Append(msgs, MessageItem("assistant",
                             IF content = None THEN "" ELSE content,
                             None, calls))

\* the first 0-based position from pos on that holds no tool message
RECURSIVE EndOfToolRun(_, _)
EndOfToolRun(msgs, pos) ==
    IF pos < Len(msgs) /\ msgs[pos + 1].role = "tool"
    THEN EndOfToolRun(msgs, pos + 1)
    ELSE pos

\* an add_tool_result that does not skip the results already in place
SkipNothing(msgs, pos) == pos

\* the while loop of add_tool_result: skip the tool results at 0-based
\* position pos and behind
SkipToolResults(msgs, pos) == EndOfToolRun(msgs, pos)

\* an add_tool_result that stores the content it is given
add_tool_resultRawContent(msgs, tool_call_id, content) ==
    Append(msgs, MessageItem("tool", content, tool_call_id, <<>>))

\* add_tool_result without insert_after_assistant_index: append
add_tool_result(msgs, tool_call_id, content) ==
    Append(msgs, MessageItem("tool", IF content = None THEN "" ELSE content,
                             tool_call_id, <<>>))

\* add_tool_result with insert_after_assistant_index
add_tool_result_after(msgs, tool_call_id, content, insert_after_assistant_index) ==
    ListInsert(msgs,
               SkipToolResults(msgs, insert_after_assistant_index + 1),
               MessageItem("tool", IF content = None THEN "" ELSE content,
                           tool_call_id, <<>>))

\* _validate_message_history: ids of the tool calls of the message at
\* 0-based index i
ToolCallIdsAt(msgs, i) == {msgs[i + 1].tool_calls[k].id : k \in 1..Len(msgs[i + 1].tool_calls)}

\* _validate_message_history: truthy ids of the tool results that directly
\* follow the message at 0-based index i
FoundToolResultIds(msgs, i) ==
    LET end == EndOfToolRun(msgs, i + 1)
    IN  {msgs[j + 1].tool_call_id : j \in {k \in (i + 1)..(end - 1) : Truthy(msgs[k + 1].tool_call_id)}}

\* a validator that takes every call id for missing
MissingIdsAll(msgs, i) == ToolCallIdsAt(msgs, i)

\* a validator that never finds a result missing
MissingIdsNone(msgs, i) == {}

\* _validate_message_history: missing_ids
MissingIds(msgs, i) == ToolCallIdsAt(msgs, i) \ FoundToolResultIds(msgs, i)

\* a validator that puts the synthetic results behind the existing tool block
InsertPositionAfterBlock(msgs, i) == EndOfToolRun(msgs, i + 1)

\* _validate_message_history: where the first synthetic result goes
InsertPosition(msgs, i) == i + 1

\* a validator that appends the synthetic results to the transcript
InsertMissingAtEnd(msgs, pos, order) ==
    msgs \o [n \in 1..Len(order) |-> MessageItem("tool", NotProcessedOutput, order[n], <<>>)]

\* the synthetic results for the ids of order, inserted one after the other
RECURSIVE InsertMissing(_, _, _)
InsertMissing(msgs, pos, order) ==
    IF order = <<>> THEN msgs
    ELSE InsertMissing(ListInsert(msgs, pos,
                                  MessageItem("tool", NotProcessedOutput, Head(order), <<>>)),
                       pos + 1, Tail(order))

\* _validate_message_history from 0-based index i on: the set of transcripts
\* the pass can leave (the missing ids are iterated in the order of a Python
\* set, which is not fixed)
RECURSIVE ValidateFrom(_, _)
ValidateFrom(msgs, i) ==
    IF i >= Len(msgs) THEN {msgs}
    ELSE IF msgs[i + 1].role = "assistant" /\ msgs[i + 1].tool_calls /= <<>>
              /\ MissingIds(msgs, i) /= {}
         THEN UNION {ValidateFrom(InsertMissing(msgs, InsertPosition(msgs, i), order),
                                  i + Len(order) + 1)
                     : order \in Perms(MissingIds(msgs, i))}
         ELSE ValidateFrom(msgs, i + 1)

validate_message_history(msgs) == ValidateFrom(msgs, 0)

\* the records get_messages builds from a validated transcript
WireMessages(msgs) ==
    (IF SystemPrompt /= "" THEN <<[role |-> "system", tool_call_id |-> None,
                                   tool_calls |-> <<>>, content |-> SystemPrompt]>>
     ELSE <<>>)
    \o [k \in 1..Len(msgs) |-> to_dict(msgs[k])]

\* ModelConfig.context_window
context_window == 1000000

\* a test that reads the cumulative usage
needs_compressionOfTotal(latest) == 5 * total_usage > 4 * context_window

\* needs_compression: current_tokens > context_limit * 0.8
needs_compression(latest) == 5 * latest > 4 * context_window

\* the value datetime.now() leaves in pruned_at
Now == "now"

SummaryText == "summary of the work so far"

ContinuationContent(summary) ==
    "# Context Restoration (Previous Session Compacted) --- " \o summary
        \o " --- Resume work from where we left off."

AckContent == "I've reviewed the context from the previous session."

ContinueContent == "Continue with the REMAINING work only."

\* a replacement that appends the three messages to the old transcript
replace_with_summaryKeepingOld(summary) ==
    messages \o <<MessageItem("user", ContinuationContent(summary), None, <<>>),
                  MessageItem("assistant", AckContent, None, <<>>),
                  MessageItem("user", ContinueContent, None, <<>>)>>

\* replace_with_summary
replace_with_summary(summary) ==
    <<MessageItem("user", ContinuationContent(summary), None, <<>>),
      MessageItem("assistant", AckContent, None, <<>>),
      MessageItem("user", ContinueContent, None, <<>>)>>

\* prune_tool_outputs: the scan from the newest message (1-based position j)
\* backwards; it stops at the first tool result that is already pruned
RECURSIVE PruneScan(_, _, _, _, _)
PruneScan(msgs, j, total_tokens, pruned_tokens, to_prune) ==
    IF j = 0 THEN [pruned_tokens |-> pruned_tokens, to_prune |-> to_prune]
    ELSE IF msgs[j].role = "tool" /\ Truthy(msgs[j].tool_call_id)
         THEN IF msgs[j].pruned_at /= None
              THEN [pruned_tokens |-> pruned_tokens, to_prune |-> to_prune]
              ELSE LET tokens == IF msgs[j].token_count /= 0
                                 THEN msgs[j].token_count
                                 ELSE CountTokens(msgs[j].content)
                   IN  IF total_tokens + tokens > PRUNE_PROTECT_TOKENS
                       THEN PruneScan(msgs, j - 1, total_tokens + tokens,
                                      pruned_tokens + tokens, to_prune \cup {j})
                       ELSE PruneScan(msgs, j - 1, total_tokens + tokens,
                                      pruned_tokens, to_prune)
         ELSE PruneScan(msgs, j - 1, total_tokens, pruned_tokens, to_prune)

\* prune_tool_outputs: the 1-based positions whose content is replaced
PrunedPositions(msgs) ==
    IF Cardinality({j \in 1..Len(msgs) : msgs[j].role = "user"}) < 2 THEN {}
    ELSE LET scan == PruneScan(msgs, Len(msgs), 0, 0, {})
         IN  IF scan.pruned_tokens < PRUNE_MINIMUM_TOKENS THEN {} ELSE scan.to_prune

\* prune_tool_outputs: the number it returns
prune_tool_outputs_returns(msgs) == Cardinality(PrunedPositions(msgs))

\* a pruning that replaces the content and leaves token_count and pruned_at
prune_tool_outputsContentOnly(msgs) ==
    LET marked == PrunedPositions(msgs)
    IN  [j \in 1..Len(msgs) |->
            IF j \in marked
            THEN [msgs[j] EXCEPT !.content = PrunedPlaceholder]
            ELSE msgs[j]]

\* a pruning that removes the marked messages from the list
prune_tool_outputsRemoving(msgs) ==
    LET marked == PrunedPositions(msgs)
        Keep(pos) == {j \in 1..Len(msgs) : j \notin marked /\ j <= pos}
    IN  [k \in 1..(Len(msgs) - Cardinality(marked)) |->
            msgs[CHOOSE j \in 1..Len(msgs) :
                     j \notin marked /\ Cardinality(Keep(j)) = k]]

\* prune_tool_outputs: the transcript it leaves
prune_tool_outputs(msgs) ==
    LET marked == PrunedPositions(msgs)
    IN  [j \in 1..Len(msgs) |->
            IF j \in marked
            THEN [msgs[j] EXCEPT !.content = PrunedPlaceholder,
                                 !.token_count = CountTokens(PrunedPlaceholder),
                                 !.pruned_at = Now]
            ELSE msgs[j]]

(***************************************************************************)
(* The context manager driven directly through its public operations.      *)
(***************************************************************************)
ManualIds == {"a", "b", "c", ""}

\* the (content, tool_calls) pairs add_assistant_message is called with
ManualAssistant ==
    {<<"text", <<>> >>,
     <<None, <<ToolCallDict("a", "t")>> >>,
     <<None, <<ToolCallDict("a", "t"), ToolCallDict("b", "t"), ToolCallDict("c", "t")>> >>,
     <<None, <<ToolCallDict("", "t")>> >>}

(***************************************************************************)
(* The values of the OSS workflow, the branch memory and the git tools.     *)
(* A branch name is the sequence of its parts and separators; the empty    *)
(* sequence is the absent (or empty) name.                                 *)
(***************************************************************************)
NoBranch == <<>>
Main == <<"main">>
Master == <<"master">>
HeadRef == <<"HEAD">>
FixBranch == <<"fix", "/", "issue-21">>
FixBranchFlat == <<"fix", "_", "issue-21">>

\* an issue URL is the sequence of its parts between the slashes; the
\* empty sequence is the absent URL
NoUrl == <<>>

\* WorkflowPhase
WorkflowPhase == {"repository_understanding", "issue_intake", "planning",
                  "implementation", "verification", "validation",
                  "commit_and_pr", "complete"}

NoCall == [op |-> "none", outcome |-> "none"]

\* OSSWorkflow.__init__: WorkflowState()
WorkflowIdle ==
    /\ phase = "repository_understanding"
    /\ issue_url = NoUrl
    /\ issue_number = <<>>
    /\ branch_name = NoBranch
    /\ changes_made = FALSE
    /\ wf_call = NoCall
    /\ _workflows = <<>>
    /\ continue_message = <<>>

\* BranchMemoryManager.__init__: an empty memory directory
MemoryIdle ==
    /\ memory_files = <<>>
    /\ loaded = <<>>
    /\ saved = <<>>

\* a repository with its default branch checked out and nothing pushed
GitIdle ==
    /\ branches = {Main}
    /\ active_branch = Main
    /\ remote_heads = <<>>
    /\ pull_requests = {}
    /\ tool_result = <<>>

OssIdle == WorkflowIdle /\ MemoryIdle /\ GitIdle

\* Agent.__init__: Session(config) builds the client and the MCP manager
Constructed ==
    /\ session = "session"
    /\ client = "open"
    /\ mcp_manager = "created"
    /\ block = "before"

\* the agent after __aenter__: the consumer is inside its `async with` block
Entered ==
    /\ session = "session"
    /\ client = "open"
    /\ mcp_manager = "running"
    /\ block = "inside"

\* the content add_tool_result is called with when it appends: a text, or
\* None for the call id "b"
ManualContent(id) == IF id = "b" THEN None ELSE ManualResult

\* the agent is not used: its variables keep the values of an idle agent
AgentIdle ==
    /\ max_turns = 0
    /\ pc = "idle"
    /\ runs = 0
    /\ requests = 0
    /\ run_requests = 0
    /\ turn_count = 0
    /\ turn_num = 0
    /\ stream = <<>>
    /\ stream_pos = 0
    /\ response_text = ""
    /\ tool_calls = <<>>
    /\ usage = <<>>
    /\ assistant_message_index = 0
    /\ tool_call_results = <<>>
    /\ call_index = 0
    /\ result = NoResult
    /\ final_response = None
    /\ history = <<>>
    /\ events = <<>>
    /\ consumer_acted = FALSE
    /\ last_exit = "none"
    /\ invocations = <<>>
    /\ usage_log = <<>>
    /\ Entered

\* a fresh ContextManager next to an agent that is not used
ContextIdle ==
    /\ messages = <<>>
    /\ returned = <<>>
    /\ latest_usage = 0
    /\ total_usage = 0
    /\ AgentIdle

InitCM == ContextIdle /\ OssIdle

AddUserMessage ==
    /\ Len(messages) < MaxMsgs
    /\ messages' = add_user_message(messages, UserText)
    /\ returned' = <<>>
    /\ UNCHANGED <<latest_usage, total_usage, agentVars>>
    /\ UNCHANGED <<lifeVars, ossVars>>

AddAssistantMessage ==
    /\ Len(messages) < MaxMsgs
    /\ \E arg \in ManualAssistant :
         messages' = add_assistant_message(messages, arg[1], arg[2])
    /\ returned' = <<>>
    /\ UNCHANGED <<latest_usage, total_usage, agentVars>>
    /\ UNCHANGED <<lifeVars, ossVars>>

AddToolResult ==
    /\ Len(messages) < MaxMsgs
    /\ \E id \in ManualIds :
         \/ messages' = add_tool_result(messages, id, ManualContent(id))
         \/ \E idx \in 0..(Len(messages) - 1) :
              messages' = add_tool_result_after(messages, id, ManualResult, idx)
    /\ returned' = <<>>
    /\ UNCHANGED <<latest_usage, total_usage, agentVars>>
    /\ UNCHANGED <<lifeVars, ossVars>>

GetMessages ==
    /\ Len(messages) <= MaxMsgs
    /\ \E v \in validate_message_history(messages) :
         /\ messages' = v
         /\ returned' = WireMessages(v)
    /\ UNCHANGED <<latest_usage, total_usage, agentVars>>
    /\ UNCHANGED <<lifeVars, ossVars>>

NextCM ==
    \/ AddUserMessage
    \/ AddAssistantMessage
    \/ AddToolResult
    \/ GetMessages

SpecCM == InitCM /\ [][NextCM]_vars

(***************************************************************************)
(* prune_tool_outputs applied to transcripts built through the add_*       *)
(* operations, with tool results of 15,000, 25,000 and 45,000 tokens.      *)
(***************************************************************************)
\* the add_* operations of this specification stop at this transcript length
MaxTranscript == 5

\* the (tool_call_id, content) pairs add_tool_result is called with
PruneToolResults ==
    {<<"a", MediumOutput>>, <<"a", BigOutput>>, <<"a", HugeOutput>>, <<"", BigOutput>>}

TranscriptAddUser ==
    /\ Len(messages) < MaxTranscript
    /\ messages' = add_user_message(messages, UserText)
    /\ UNCHANGED <<returned, latest_usage, total_usage, agentVars>>
    /\ UNCHANGED <<lifeVars, ossVars>>

TranscriptAddAssistant ==
    /\ Len(messages) < MaxTranscript
    /\ messages' = add_assistant_message(messages, None, <<ToolCallDict("a", "t")>>)
    /\ UNCHANGED <<returned, latest_usage, total_usage, agentVars>>
    /\ UNCHANGED <<lifeVars, ossVars>>

TranscriptAddToolResult ==
    /\ Len(messages) < MaxTranscript
    /\ \E arg \in PruneToolResults :
         messages' = add_tool_result(messages, arg[1], arg[2])
    /\ UNCHANGED <<returned, latest_usage, total_usage, agentVars>>
    /\ UNCHANGED <<lifeVars, ossVars>>

PruneToolOutputs ==
    /\ messages' = prune_tool_outputs(messages)
    /\ UNCHANGED <<returned, latest_usage, total_usage, agentVars>>
    /\ UNCHANGED <<lifeVars, ossVars>>

NextPrune ==
    \/ TranscriptAddUser
    \/ TranscriptAddAssistant
    \/ TranscriptAddToolResult
    \/ PruneToolOutputs

SpecPrune == InitCM /\ [][NextPrune]_vars

(***************************************************************************)
(* The usage counters of the context manager driven directly.              *)
(***************************************************************************)
\* add_usage and add_user_message are called at most this often
MaxUsageCalls == 3

\* one add_usage call: the session turn it was made in, its origin, its tokens
UsageRecord(turn, source, tokens) == [turn |-> turn, source |-> source, tokens |-> tokens]

\* the total_tokens of the usages handed to set_latest_usage and add_usage
UsageTotals == {1000, 800000, 800001, 900000}

SetLatestUsage ==
    /\ \E u \in UsageTotals : latest_usage' = u
    /\ UNCHANGED <<messages, returned, total_usage, agentVars>>
    /\ UNCHANGED <<lifeVars, ossVars>>

AddUsage ==
    /\ Len(usage_log) < MaxUsageCalls
    /\ \E u \in UsageTotals :
         /\ total_usage' = total_usage + u
         /\ usage_log' = Append(usage_log, UsageRecord(turn_count, "manual", u))
    /\ UNCHANGED <<messages, returned, latest_usage, max_turns, pc, runs, requests,
                   run_requests, turn_count, history, events, consumer_acted,
                   last_exit, invocations, localVars>>
    /\ UNCHANGED <<lifeVars, ossVars>>

UsageAddUserMessage ==
    /\ Len(messages) < MaxUsageCalls
    /\ messages' = add_user_message(messages, LongUserText)
    /\ UNCHANGED <<returned, latest_usage, total_usage, agentVars>>
    /\ UNCHANGED <<lifeVars, ossVars>>

NextUsage ==
    \/ SetLatestUsage
    \/ AddUsage
    \/ UsageAddUserMessage

SpecUsage == InitCM /\ [][NextUsage]_vars

(***************************************************************************)
(* The collaborators of the turn loop: chat client, tool registry, loop    *)
(* detector, summarizer.                                                   *)
(***************************************************************************)
\* Config.max_turns ranges over 0..MaxTurns
MaxTurns == 2

\* run() calls and chat_completion requests made on one agent, together
MaxCalls == 4

\* client.response.StreamEvent
StreamEvent(type, text, call_id, name, u, error) ==
    [type |-> type, text |-> text, call_id |-> call_id, name |-> name,
     usage |-> u, error |-> error]

TextDelta(content) == StreamEvent("text_delta", content, None, None, <<>>, None)

ToolCallStart(call_id, name) == StreamEvent("tool_call_start", "", call_id, name, <<>>, None)

ToolCallComplete(call_id, name) == StreamEvent("tool_call_complete", "", call_id, name, <<>>, None)

StreamError(error) == StreamEvent("error", "", None, None, <<>>, error)

MessageComplete(u) == StreamEvent("message_complete", "", None, None, u, None)

\* the completion streams the chat client can deliver in a turn
Streams ==
    {<<>>,
     <<TextDelta("Looking into it"), MessageComplete(<<1000>>)>>,
     <<TextDelta("Looking into it"), StreamError("connection reset"),
       ToolCallStart("c1", "git_status"), ToolCallComplete("c1", "git_status"),
       MessageComplete(<<1000>>)>>,
     <<ToolCallComplete("c1", "git_diff"), ToolCallComplete("c2", "git_diff"),
       ToolCallComplete("c3", "git_diff")>>,
     <<ToolCallComplete("c1", "workflow_orchestrator"),
       ToolCallComplete("c2", "user_confirm"), MessageComplete(<<900000>>)>>,
     <<ToolCallComplete("c1", "git_status"), ToolCallComplete("c2", "workflow_orchestrator"),
       ToolCallComplete("c3", ""), MessageComplete(<<1000>>)>>}

ConfirmOutput == "CONFIRMATION_REQUIRED: push?"

DiffOutput == "no changes"

TransitionOutput == "Transitioned to: planning"

\* what ToolRegistry.invoke can do for a tool: return a result or raise
Returns(res) == [raised |-> FALSE, result |-> res, exception |-> ""]

Raises(message) == [raised |-> TRUE, result |-> NoResult, exception |-> message]

InvokeOutcomes(name) ==
    IF name = "git_status" THEN {Returns(success_result(BigOutput)), Raises("boom")}
    ELSE IF name = "git_diff" THEN {Returns(success_result(DiffOutput))}
    ELSE IF name = "user_confirm" THEN {Returns(success_result(ConfirmOutput))}
    ELSE {Returns(success_result(TransitionOutput)),
          Returns(error_result("Cannot complete phase", ""))}

\* an except clause that drops the exception's message
InvokeResultNoMessage(outcome) ==
    IF outcome.raised
    THEN error_result("Tool execution failed", "")
    ELSE outcome.result

\* the result the loop works with after the try/except around invoke
InvokeResult(outcome) ==
    IF outcome.raised
    THEN error_result("Tool execution failed: " \o outcome.exception, "")
    ELSE outcome.result

\* client.response.ToolResultMessage
ToolResultMessage(tool_call_id, content, is_error) ==
    [tool_call_id |-> tool_call_id, content |-> content, is_error |-> is_error]

\* the loop detector reports a run of this many matching actions
LoopThreshold == 3

\* LoopDetector.record_action: the history is a bounded window
record_action(h, action) ==
    IF Len(h) < LoopThreshold THEN Append(h, action) ELSE Append(Tail(h), action)

\* a detector that reports two matching actions
check_for_loopOfTwo(h) ==
    IF Len(h) >= 2 /\ h[Len(h) - 1] = h[Len(h)]
    THEN "Same action repeated"
    ELSE None

\* LoopDetector.check_for_loop: a diagnosis, or None
check_for_loop(h) ==
    IF Len(h) >= LoopThreshold
          /\ \A n \in (Len(h) - LoopThreshold + 1)..Len(h) : h[n] = h[Len(h)]
    THEN "Same action repeated"
    ELSE None

\* prompts.system.create_loop_breaker_prompt
create_loop_breaker_prompt(diagnosis) == "LOOP DETECTED: " \o diagnosis

\* the summaries ChatCompactor.compress can return ("" is no summary)
Summaries == {"", SummaryText}

\* the usage ChatCompactor.compress reports for a summary
SummaryUsage == 500

\* a loop that runs one turn more than max_turns
MoreTurnsOffByOne(n, limit) == n <= limit

\* for turn_num in range(max_turns): another iteration follows n iterations
MoreTurns(n, limit) == n < limit

\* a loop that stops reading the stream at an error event
AfterEventStopAtError(st, pos) ==
    IF st[pos + 1].type = "error" THEN Len(st) ELSE pos + 1

\* async for event in chat_completion(...): the next event follows
AfterEvent(st, pos) == pos + 1

\* agent.events.AgentEvent
AgentEvent(type, call_id, content) == [type |-> type, call_id |-> call_id, content |-> content]

\* str(n) for the turn limits of the model
Digits == <<"0", "1", "2", "3", "4", "5", "6", "7", "8", "9">>

RECURSIVE Str(_)
Str(n) == IF n < 10 THEN Digits[n + 1] ELSE Str(n \div 10) \o Digits[(n % 10) + 1]

\* f"Maximum turns ({max_turns}) reached"
MaxTurnsError(n) == "Maximum turns (" \o Str(n) \o ") reached"

(***************************************************************************)
(* Agent.run and Agent._agentic_loop.  pc names the yield at which the     *)
(* generator is suspended (y_...) or the statement it executes next.       *)
(***************************************************************************)
Yields == {"y_agent_start", "y_text_delta", "y_stream_error", "y_text_complete",
           "y_tool_call_start", "y_tool_call_complete", "y_max_turns", "y_agent_end"}

InitAgent ==
    /\ messages = <<>>
    /\ returned = <<>>
    /\ latest_usage = 0
    /\ total_usage = 0
    /\ max_turns \in 0..MaxTurns
    /\ pc = "idle"
    /\ runs = 0
    /\ requests = 0
    /\ run_requests = 0
    /\ turn_count = 0
    /\ turn_num = 0
    /\ stream = <<>>
    /\ stream_pos = 0
    /\ response_text = ""
    /\ tool_calls = <<>>
    /\ usage = <<>>
    /\ assistant_message_index = 0
    /\ tool_call_results = <<>>
    /\ call_index = 0
    /\ result = NoResult
    /\ final_response = None
    /\ history = <<>>
    /\ events = <<>>
    /\ consumer_acted = FALSE
    /\ last_exit = "none"
    /\ invocations = <<>>
    /\ usage_log = <<>>
    /\ OssIdle

\* an agent whose `async with` block has been entered
Init == InitAgent /\ Entered

\* the generator yields event e and is suspended at yield y
YieldAt(y, e) ==
    /\ pc' = y
    /\ events' = Append(events, e)
    /\ consumer_acted' = FALSE

\* the frames of run() and _agentic_loop() are gone
DropLocals ==
    /\ turn_num' = 0
    /\ stream' = <<>>
    /\ stream_pos' = 0
    /\ response_text' = ""
    /\ tool_calls' = <<>>
    /\ usage' = <<>>
    /\ assistant_message_index' = 0
    /\ tool_call_results' = <<>>
    /\ call_index' = 0
    /\ result' = NoResult
    /\ final_response' = None

\* run(message) is called and driven to its first yield
Run ==
    /\ pc = "idle"
    /\ runs + requests < MaxCalls
    /\ runs' = runs + 1
    /\ run_requests' = 0
    /\ pc' = "y_agent_start"
    /\ events' = <<AgentEvent("agent_start", None, UserText)>>
    /\ consumer_acted' = FALSE
    /\ UNCHANGED <<cmVars, max_turns, requests, turn_count, history, logVars,
                   localVars>>
    /\ UNCHANGED <<lifeVars, ossVars>>

\* run() resumes after agent_start and enters _agentic_loop
ResumeAgentStart ==
    /\ pc = "y_agent_start"
    /\ messages' = add_user_message(messages, UserText)
    /\ final_response' = None
    /\ turn_num' = 0
    /\ pc' = "loop_top"
    /\ UNCHANGED <<returned, latest_usage, total_usage, max_turns, runs, requests,
                   run_requests, turn_count, history, events, consumer_acted,
                   logVars, stream, stream_pos, response_text, tool_calls, usage,
                   assistant_message_index, tool_call_results, call_index, result>>
    /\ UNCHANGED <<lifeVars, ossVars>>

\* a loop head that builds the request before it compacts the transcript
TurnStartRequestFirst ==
    /\ pc = "loop_top"
    /\ MoreTurns(turn_num, max_turns)
    /\ runs + requests < MaxCalls
    /\ \E summary \in Summaries, st \in Streams :
         LET compacted == needs_compression(latest_usage) /\ summary /= ""
             msgs1 == IF compacted THEN replace_with_summary(summary) ELSE messages
         IN  /\ needs_compression(latest_usage) \/ summary = ""
             /\ latest_usage' = IF compacted THEN SummaryUsage ELSE latest_usage
             /\ total_usage' = IF compacted THEN total_usage + SummaryUsage ELSE total_usage
             /\ usage_log' = IF compacted
                             THEN Append(usage_log, UsageRecord(turn_count + 1, "compression",
                                                                SummaryUsage))
                             ELSE usage_log
             /\ \E v \in validate_message_history(messages) :
                  /\ messages' = IF compacted THEN msgs1 ELSE v
                  /\ returned' = WireMessages(v)
             /\ stream' = st
             /\ stream_pos' = 0
    /\ turn_num' = turn_num + 1
    /\ turn_count' = turn_count + 1
    /\ requests' = requests + 1
    /\ run_requests' = run_requests + 1
    /\ response_text' = ""
    /\ tool_calls' = <<>>
    /\ usage' = <<>>
    /\ pc' = "await_stream"
    /\ UNCHANGED <<max_turns, runs, history, events, consumer_acted, last_exit,
                   invocations, assistant_message_index, tool_call_results,
                   call_index, result, final_response>>
    /\ UNCHANGED <<lifeVars, ossVars>>

\* the head of the for loop, up to the chat_completion request
TurnStart ==
    /\ pc = "loop_top"
    /\ MoreTurns(turn_num, max_turns)
    /\ runs + requests < MaxCalls
    /\ \E summary \in Summaries, st \in Streams :
         LET compacted == needs_compression(latest_usage) /\ summary /= ""
             msgs1 == IF compacted THEN replace_with_summary(summary) ELSE messages
         IN  /\ needs_compression(latest_usage) \/ summary = ""
             /\ latest_usage' = IF compacted THEN SummaryUsage ELSE latest_usage
             /\ total_usage' = IF compacted THEN total_usage + SummaryUsage ELSE total_usage
             /\ usage_log' = IF compacted
                             THEN Append(usage_log, UsageRecord(turn_count + 1, "compression",
                                                                SummaryUsage))
                             ELSE usage_log
             /\ \E v \in validate_message_history(msgs1) :
                  /\ messages' = v
                  /\ returned' = WireMessages(v)
             /\ stream' = st
             /\ stream_pos' = 0
    /\ turn_num' = turn_num + 1
    /\ turn_count' = turn_count + 1
    /\ requests' = requests + 1
    /\ run_requests' = run_requests + 1
    /\ response_text' = ""
    /\ tool_calls' = <<>>
    /\ usage' = <<>>
    /\ pc' = "await_stream"
    /\ UNCHANGED <<max_turns, runs, history, events, consumer_acted, last_exit,
                   invocations, assistant_message_index, tool_call_results,
                   call_index, result, final_response>>
    /\ UNCHANGED <<lifeVars, ossVars>>

\* the for loop is exhausted: the max-turns error is yielded
MaxTurnsReached ==
    /\ pc = "loop_top"
    /\ ~MoreTurns(turn_num, max_turns)
    /\ YieldAt("y_max_turns", AgentEvent("agent_error", None, MaxTurnsError(max_turns)))
    /\ UNCHANGED <<cmVars, max_turns, runs, requests, run_requests, turn_count,
                   history, logVars, localVars>>
    /\ UNCHANGED <<lifeVars, ossVars>>

streamVarsRest == <<cmVars, max_turns, runs, requests, run_requests, turn_count,
                    history, logVars, turn_num, stream, assistant_message_index,
                    tool_call_results, call_index, result, final_response>>

\* TEXT_DELTA: appended to response_text and forwarded
StreamTextDelta ==
    /\ pc = "await_stream"
    /\ stream_pos < Len(stream) /\ stream[stream_pos + 1].type = "text_delta"
    /\ stream_pos' = AfterEvent(stream, stream_pos)
    /\ response_text' = response_text \o stream[stream_pos + 1].text
    /\ YieldAt("y_text_delta", AgentEvent("text_delta", None, stream[stream_pos + 1].text))
    /\ UNCHANGED <<streamVarsRest, tool_calls, usage>>
    /\ UNCHANGED <<lifeVars, ossVars>>

\* a stream loop that forwards TOOL_CALL_START to the consumer
StreamToolCallStartForwarded ==
    /\ pc = "await_stream"
    /\ stream_pos < Len(stream) /\ stream[stream_pos + 1].type = "tool_call_start"
    /\ stream_pos' = AfterEvent(stream, stream_pos)
    /\ YieldAt("y_text_delta", AgentEvent("tool_call_start", stream[stream_pos + 1].call_id,
                                          stream[stream_pos + 1].name))
    /\ UNCHANGED <<streamVarsRest, response_text, tool_calls, usage>>
    /\ UNCHANGED <<lifeVars, ossVars>>

\* TOOL_CALL_START: swallowed
StreamToolCallStart ==
    /\ pc = "await_stream"
    /\ stream_pos < Len(stream) /\ stream[stream_pos + 1].type = "tool_call_start"
    /\ stream_pos' = AfterEvent(stream, stream_pos)
    /\ UNCHANGED <<streamVarsRest, pc, events, consumer_acted, response_text,
                   tool_calls, usage>>
    /\ UNCHANGED <<lifeVars, ossVars>>

\* TOOL_CALL_COMPLETE: the call is collected
StreamToolCallComplete ==
    /\ pc = "await_stream"
    /\ stream_pos < Len(stream) /\ stream[stream_pos + 1].type = "tool_call_complete"
    /\ stream_pos' = AfterEvent(stream, stream_pos)
    /\ tool_calls' = Append(tool_calls, [call_id |-> stream[stream_pos + 1].call_id,
                                         name |-> stream[stream_pos + 1].name])
    /\ UNCHANGED <<streamVarsRest, pc, events, consumer_acted, response_text, usage>>
    /\ UNCHANGED <<lifeVars, ossVars>>

\* ERROR: forwarded as an agent-error event
StreamErrorEvent ==
    /\ pc = "await_stream"
    /\ stream_pos < Len(stream) /\ stream[stream_pos + 1].type = "error"
    /\ stream_pos' = AfterEvent(stream, stream_pos)
    /\ YieldAt("y_stream_error", AgentEvent("agent_error", None, stream[stream_pos + 1].error))
    /\ UNCHANGED <<streamVarsRest, response_text, tool_calls, usage>>
    /\ UNCHANGED <<lifeVars, ossVars>>

\* MESSAGE_COMPLETE: the usage is kept
StreamMessageComplete ==
    /\ pc = "await_stream"
    /\ stream_pos < Len(stream) /\ stream[stream_pos + 1].type = "message_complete"
    /\ stream_pos' = AfterEvent(stream, stream_pos)
    /\ usage' = stream[stream_pos + 1].usage
    /\ UNCHANGED <<streamVarsRest, pc, events, consumer_acted, response_text,
                   tool_calls>>
    /\ UNCHANGED <<lifeVars, ossVars>>

\* the consumer asks for the next event after a text delta or a stream error
ResumeStream ==
    /\ pc \in {"y_text_delta", "y_stream_error"}
    /\ pc' = "await_stream"
    /\ UNCHANGED <<streamVarsRest, stream_pos, events, consumer_acted,
                   response_text, tool_calls, usage>>
    /\ UNCHANGED <<lifeVars, ossVars>>

\* the tool_calls list handed to add_assistant_message
AssistantToolCalls(calls) ==
    [n \in 1..Len(calls) |-> ToolCallDict(calls[n].call_id, calls[n].name)]

\* the stream has ended: the assistant message is recorded
StreamEnd ==
    /\ pc = "await_stream"
    /\ stream_pos >= Len(stream)
    /\ assistant_message_index' = Len(messages)
    /\ messages' = add_assistant_message(messages,
                                         IF response_text = "" THEN None ELSE response_text,
                                         AssistantToolCalls(tool_calls))
    /\ IF response_text /= ""
       THEN YieldAt("y_text_complete", AgentEvent("text_complete", None, response_text))
       ELSE pc' = "check_tools" /\ UNCHANGED <<events, consumer_acted>>
    /\ UNCHANGED <<returned, latest_usage, total_usage, max_turns, runs, requests,
                   run_requests, turn_count, history, logVars, turn_num, stream,
                   stream_pos, response_text, tool_calls, usage, tool_call_results,
                   call_index, result, final_response>>
    /\ UNCHANGED <<lifeVars, ossVars>>

\* after text_complete: run() keeps the text, the loop records the response
ResumeTextComplete ==
    /\ pc = "y_text_complete"
    /\ final_response' = response_text
    /\ history' = record_action(history, "response: " \o response_text)
    /\ pc' = "check_tools"
    /\ UNCHANGED <<cmVars, max_turns, runs, requests, run_requests, turn_count,
                   events, consumer_acted, logVars, turn_num, stream, stream_pos,
                   response_text, tool_calls, usage, assistant_message_index,
                   tool_call_results, call_index, result>>
    /\ UNCHANGED <<lifeVars, ossVars>>

\* a loop that keeps the largest usage it has seen as the latest one
LatestAfterLargest(u, latest) ==
    IF u /= <<>> /\ u[1] > latest THEN u[1] ELSE latest

\* `if usage:` set_latest_usage(usage)
LatestAfter(u, latest) == IF u /= <<>> THEN u[1] ELSE latest

\* a loop that counts the usage of a turn twice
TotalAfterTwice(u, total) == IF u /= <<>> THEN total + u[1] + u[1] ELSE total

\* `if usage:` add_usage(usage)
TotalAfter(u, total) == IF u /= <<>> THEN total + u[1] ELSE total

\* the add_usage call of a turn, as the log sees it
LogAfter(u, log, turn) ==
    IF u /= <<>> THEN Append(log, UsageRecord(turn, "turn", u[1])) ELSE log

\* no tool call was requested: usage, pruning, return; run() yields agent_end
NoToolCalls ==
    /\ pc = "check_tools"
    /\ tool_calls = <<>>
    /\ latest_usage' = LatestAfter(usage, latest_usage)
    /\ total_usage' = TotalAfter(usage, total_usage)
    /\ usage_log' = LogAfter(usage, usage_log, turn_count)
    /\ messages' = prune_tool_outputs(messages)
    /\ YieldAt("y_agent_end", AgentEvent("agent_end", None, final_response))
    /\ UNCHANGED <<returned, max_turns, runs, requests, run_requests, turn_count,
                   history, last_exit, invocations, localVars>>
    /\ UNCHANGED <<lifeVars, ossVars>>

\* tool calls were requested: the dispatch loop begins
BeginDispatch ==
    /\ pc = "check_tools"
    /\ tool_calls /= <<>>
    /\ tool_call_results' = <<>>
    /\ call_index' = 1
    /\ pc' = "dispatch"
    /\ UNCHANGED <<cmVars, max_turns, runs, requests, run_requests, turn_count,
                   history, events, consumer_acted, logVars, turn_num, stream,
                   stream_pos, response_text, tool_calls, usage,
                   assistant_message_index, result, final_response>>
    /\ UNCHANGED <<lifeVars, ossVars>>

dispatchVarsRest == <<cmVars, max_turns, runs, requests, run_requests, turn_count,
                      last_exit, usage_log, turn_num, stream, stream_pos,
                      response_text, tool_calls, usage, assistant_message_index,
                      final_response>>

\* a dispatch loop that skips a call without a name and records nothing
DispatchNamelessSkipped ==
    /\ pc = "dispatch"
    /\ call_index <= Len(tool_calls)
    /\ tool_calls[call_index].name = ""
    /\ call_index' = call_index + 1
    /\ UNCHANGED <<dispatchVarsRest, pc, history, events, consumer_acted, result,
                   invocations, tool_call_results>>
    /\ UNCHANGED <<lifeVars, ossVars>>

\* a call without a name: an error result, nothing is invoked
DispatchNameless ==
    /\ pc = "dispatch"
    /\ call_index <= Len(tool_calls)
    /\ tool_calls[call_index].name = ""
    /\ tool_call_results' =
          Append(tool_call_results,
                 ToolResultMessage(tool_calls[call_index].call_id,
                                   to_model_output(error_result("Tool call missing name", "")),
                                   TRUE))
    /\ call_index' = call_index + 1
    /\ UNCHANGED <<dispatchVarsRest, pc, history, events, consumer_acted, result,
                   invocations>>
    /\ UNCHANGED <<lifeVars, ossVars>>

\* a named call: tool_call_start is yielded
DispatchStart ==
    /\ pc = "dispatch"
    /\ call_index <= Len(tool_calls)
    /\ tool_calls[call_index].name /= ""
    /\ YieldAt("y_tool_call_start",
               AgentEvent("tool_call_start", tool_calls[call_index].call_id,
                          tool_calls[call_index].name))
    /\ UNCHANGED <<dispatchVarsRest, history, tool_call_results, call_index, result,
                   invocations>>
    /\ UNCHANGED <<lifeVars, ossVars>>

\* after tool_call_start: the action is recorded, the registry is invoked,
\* an exception becomes an error result, tool_call_complete is yielded
Invoke ==
    /\ pc = "y_tool_call_start"
    /\ history' = record_action(history, "tool_call: " \o tool_calls[call_index].name)
    /\ \E outcome \in InvokeOutcomes(tool_calls[call_index].name) :
         /\ result' = InvokeResult(outcome)
         /\ invocations' = Append(invocations,
                                  [turn |-> turn_count, index |-> call_index,
                                   call_id |-> tool_calls[call_index].call_id,
                                   name |-> tool_calls[call_index].name,
                                   raised |-> outcome.raised,
                                   exception |-> outcome.exception])
         /\ YieldAt("y_tool_call_complete",
                    AgentEvent("tool_call_complete", tool_calls[call_index].call_id,
                               to_model_output(InvokeResult(outcome))))
    /\ UNCHANGED <<dispatchVarsRest, tool_call_results, call_index>>
    /\ UNCHANGED <<lifeVars, ossVars>>

\* a loop that dispatches a call again when the registry raised for it
ResumeToolCallCompleteRetrying ==
    /\ pc = "y_tool_call_complete"
    /\ tool_call_results' =
          IF invocations[Len(invocations)].raised THEN tool_call_results
          ELSE Append(tool_call_results,
                      ToolResultMessage(tool_calls[call_index].call_id,
                                        to_model_output(result), ~result.success))
    /\ call_index' = IF invocations[Len(invocations)].raised THEN call_index ELSE call_index + 1
    /\ result' = NoResult
    /\ pc' = "dispatch"
    /\ UNCHANGED <<dispatchVarsRest, history, events, consumer_acted, invocations>>
    /\ UNCHANGED <<lifeVars, ossVars>>

\* after tool_call_complete: the result message is collected
ResumeToolCallComplete ==
    /\ pc = "y_tool_call_complete"
    /\ tool_call_results' =
          Append(tool_call_results,
                 ToolResultMessage(tool_calls[call_index].call_id,
                                   to_model_output(result), ~result.success))
    /\ call_index' = call_index + 1
    /\ result' = NoResult
    /\ pc' = "dispatch"
    /\ UNCHANGED <<dispatchVarsRest, history, events, consumer_acted, invocations>>
    /\ UNCHANGED <<lifeVars, ossVars>>

\* a loop that appends the results of the turn to the transcript
RECURSIVE InsertResultsAtEnd(_, _, _)
InsertResultsAtEnd(msgs, results, index) ==
    IF results = <<>> THEN msgs
    ELSE InsertResultsAtEnd(add_tool_result(msgs, Head(results).tool_call_id,
                                            Head(results).content),
                            Tail(results), index)

\* add_tool_result(..., insert_after_assistant_index) for a list of results
RECURSIVE InsertResultsAfter(_, _, _)
InsertResultsAfter(msgs, results, index) ==
    IF results = <<>> THEN msgs
    ELSE InsertResultsAfter(add_tool_result_after(msgs, Head(results).tool_call_id,
                                                  Head(results).content, index),
                            Tail(results), index)

\* the call ids of the assistant message that have no collected result
UnprocessedIds(calls, results) ==
    {calls[n].call_id : n \in 1..Len(calls)} \ {results[n].tool_call_id : n \in 1..Len(results)}

NotProcessed(order) ==
    [n \in 1..Len(order) |-> ToolResultMessage(order[n], NotProcessedOutput, TRUE)]

\* the dispatch loop is over: the results are inserted behind the assistant
\* message, and the defensive check fills the ids without a result
InsertResults ==
    /\ pc = "dispatch"
    /\ call_index > Len(tool_calls)
    /\ \E order \in Perms(UnprocessedIds(tool_calls, tool_call_results)) :
         messages' = InsertResultsAfter(
                        InsertResultsAfter(messages, tool_call_results,
                                           assistant_message_index),
                        NotProcessed(order), assistant_message_index)
    /\ pc' = "results_inserted"
    /\ UNCHANGED <<returned, latest_usage, total_usage, max_turns, runs, requests,
                   run_requests, turn_count, history, events, consumer_acted,
                   logVars, localVars>>
    /\ UNCHANGED <<lifeVars, ossVars>>

\* an end of the turn that ignores the loop detector's diagnosis
FinishTurnNoBreaker ==
    /\ pc = "results_inserted"
    /\ messages' = prune_tool_outputs(messages)
    /\ latest_usage' = LatestAfter(usage, latest_usage)
    /\ total_usage' = TotalAfter(usage, total_usage)
    /\ usage_log' = LogAfter(usage, usage_log, turn_count)
    /\ pc' = "loop_top"
    /\ UNCHANGED <<returned, max_turns, runs, requests, run_requests, turn_count,
                   history, events, consumer_acted, last_exit, invocations,
                   localVars>>
    /\ UNCHANGED <<lifeVars, ossVars>>

\* the end of the turn: loop detection, usage, pruning
FinishTurn ==
    /\ pc = "results_inserted"
    /\ messages' = prune_tool_outputs(
                      IF check_for_loop(history) /= None
                      THEN add_user_message(messages,
                                            create_loop_breaker_prompt(check_for_loop(history)))
                      ELSE messages)
    /\ latest_usage' = LatestAfter(usage, latest_usage)
    /\ total_usage' = TotalAfter(usage, total_usage)
    /\ usage_log' = LogAfter(usage, usage_log, turn_count)
    /\ pc' = "loop_top"
    /\ UNCHANGED <<returned, max_turns, runs, requests, run_requests, turn_count,
                   history, events, consumer_acted, last_exit, invocations,
                   localVars>>
    /\ UNCHANGED <<lifeVars, ossVars>>

\* a run() that ends after the max-turns error without yielding agent_end
ResumeMaxTurnsNoAgentEnd ==
    /\ pc = "y_max_turns"
    /\ pc' = "idle"
    /\ last_exit' = "exhausted"
    /\ DropLocals
    /\ UNCHANGED <<cmVars, max_turns, runs, requests, run_requests, turn_count,
                   history, events, consumer_acted, invocations, usage_log>>
    /\ UNCHANGED <<lifeVars, ossVars>>

\* after the max-turns error: the loop returns, run() yields agent_end
ResumeMaxTurns ==
    /\ pc = "y_max_turns"
    /\ YieldAt("y_agent_end", AgentEvent("agent_end", None, final_response))
    /\ UNCHANGED <<cmVars, max_turns, runs, requests, run_requests, turn_count,
                   history, logVars, localVars>>
    /\ UNCHANGED <<lifeVars, ossVars>>

\* after agent_end: the generator is exhausted
ResumeAgentEnd ==
    /\ pc = "y_agent_end"
    /\ pc' = "idle"
    /\ last_exit' = "exhausted"
    /\ DropLocals
    /\ UNCHANGED <<cmVars, max_turns, runs, requests, run_requests, turn_count,
                   history, events, consumer_acted, invocations, usage_log>>
    /\ UNCHANGED <<lifeVars, ossVars>>

\* the consumer closes the generator at the yield where it is suspended
Close ==
    /\ pc \in Yields
    /\ pc' = "idle"
    /\ last_exit' = "closed"
    /\ DropLocals
    /\ UNCHANGED <<cmVars, max_turns, runs, requests, run_requests, turn_count,
                   history, events, consumer_acted, invocations, usage_log>>
    /\ UNCHANGED <<lifeVars, ossVars>>

\* the CLI answers a user_confirm request by adding a tool result
ConsumerConfirm ==
    /\ pc = "y_tool_call_complete"
    /\ ~consumer_acted
    /\ tool_calls[call_index].name = "user_confirm"
    /\ result.success /\ result.output = ConfirmOutput
    /\ messages' = add_tool_result(messages, tool_calls[call_index].call_id,
                                   "User confirmed: YES.")
    /\ consumer_acted' = TRUE
    /\ UNCHANGED <<returned, latest_usage, total_usage, max_turns, pc, runs,
                   requests, run_requests, turn_count, history, events, logVars,
                   localVars>>
    /\ UNCHANGED <<lifeVars, ossVars>>

\* the CLI injects the prompt of the next phase after a phase transition
ConsumerInjectPhase ==
    /\ pc = "y_tool_call_complete"
    /\ ~consumer_acted
    /\ tool_calls[call_index].name = "workflow_orchestrator"
    /\ result.success /\ result.output = TransitionOutput
    /\ messages' = add_user_message(messages, "Phase transition complete!")
    /\ consumer_acted' = TRUE
    /\ UNCHANGED <<returned, latest_usage, total_usage, max_turns, pc, runs,
                   requests, run_requests, turn_count, history, events, logVars,
                   localVars>>
    /\ UNCHANGED <<lifeVars, ossVars>>

Next ==
    \/ Run
    \/ ResumeAgentStart
    \/ TurnStart
    \/ MaxTurnsReached
    \/ StreamTextDelta
    \/ StreamToolCallStart
    \/ StreamToolCallComplete
    \/ StreamErrorEvent
    \/ StreamMessageComplete
    \/ ResumeStream
    \/ StreamEnd
    \/ ResumeTextComplete
    \/ NoToolCalls
    \/ BeginDispatch
    \/ DispatchNameless
    \/ DispatchStart
    \/ Invoke
    \/ ResumeToolCallComplete
    \/ InsertResults
    \/ FinishTurn
    \/ ResumeMaxTurns
    \/ ResumeAgentEnd
    \/ Close
    \/ ConsumerConfirm
    \/ ConsumerInjectPhase

Spec == Init /\ [][Next]_vars

(***************************************************************************)
(* The agent inside the consumer's `async with Agent(config) as agent:`.   *)
(***************************************************************************)
\* __aenter__: session.initialize()
Enter ==
    /\ block = "before"
    /\ mcp_manager' = "running"
    /\ block' = "inside"
    /\ UNCHANGED <<cmVars, agentVars, session, client, ossVars>>

\* an exit that cleans up only when the block ended without an exception
aexitOnCompletion(sess, cl, mcp, exc_type) ==
    IF exc_type = None /\ sess /= None /\ Truthy(cl) /\ Truthy(mcp)
    THEN [session |-> None, client |-> "closed", mcp_manager |-> "shutdown"]
    ELSE [session |-> sess, client |-> cl, mcp_manager |-> mcp]

\* __aexit__: client.close(), mcp_manager.shutdown(), session = None
aexit(sess, cl, mcp, exc_type) ==
    IF sess /= None /\ Truthy(cl) /\ Truthy(mcp)
    THEN [session |-> None, client |-> "closed", mcp_manager |-> "shutdown"]
    ELSE [session |-> sess, client |-> cl, mcp_manager |-> mcp]

\* the interpreter calls __aexit__ with the exception that leaves the block
LeaveWith(exc_type) ==
    LET after == aexit(session, client, mcp_manager, exc_type)
    IN  /\ session' = after.session
        /\ client' = after.client
        /\ mcp_manager' = after.mcp_manager
        /\ block' = IF exc_type = None THEN "left" ELSE "left_raising"

\* the body of the block ends: the event stream is exhausted or was closed
LeaveNormally ==
    /\ block = "inside"
    /\ pc = "idle"
    /\ LeaveWith(None)
    /\ UNCHANGED <<cmVars, agentVars, ossVars>>

\* the consumer's code raises between two events, or behind the loop
LeaveRaising ==
    /\ block = "inside"
    /\ pc \in Yields \cup {"idle"}
    /\ LeaveWith("Exception")
    /\ UNCHANGED <<cmVars, agentVars, ossVars>>

\* the body of the block drives the agent
InsideBlock ==
    /\ block = "inside"
    /\ Next

NextLife ==
    \/ Enter
    \/ InsideBlock
    \/ LeaveNormally
    \/ LeaveRaising

\* an agent that was constructed and whose block is not entered yet
InitLife == InitAgent /\ Constructed

SpecLife == InitLife /\ [][NextLife]_vars

(***************************************************************************)
(* Properties of a message list (a transcript or a list of wire records).  *)
(***************************************************************************)
\* 1-based positions of the tool messages that directly follow position k
ToolBlock(list, k) ==
    {j \in (k + 1)..Len(list) : \A m \in (k + 1)..j : list[m].role = "tool"}

CallIds(item) == {item.tool_calls[n].id : n \in 1..Len(item.tool_calls)}

HasToolCalls(item) == item.role = "assistant" /\ item.tool_calls /= <<>>

ResultsFor(list, k, id) == {j \in ToolBlock(list, k) : list[j].tool_call_id = id}

\* every call id of every assistant message has exactly one result in the
\* tool block that directly follows the assistant message
ExactlyOneResultPerCall(list) ==
    \A k \in 1..Len(list) :
        HasToolCalls(list[k]) =>
            \A id \in CallIds(list[k]) : Cardinality(ResultsFor(list, k, id)) = 1

\* every call id of every assistant message has a result in the tool block
\* that directly follows the assistant message
EveryCallHasResult(list) ==
    \A k \in 1..Len(list) :
        HasToolCalls(list[k]) =>
            \A id \in CallIds(list[k]) : ResultsFor(list, k, id) /= {}

(***************************************************************************)
(* C1: every assistant message with tool_calls in the list returned by     *)
(* get_messages() is directly followed, before any message of another      *)
(* role, by exactly one tool message per call id.                          *)
(***************************************************************************)
C1_ExactlyOneToolMessagePerCallId == ExactlyOneResultPerCall(returned)

(***************************************************************************)
(* C3: for an assistant message with tool_calls [a, b, c] directly         *)
(* followed by the results of a and c and then a user message,             *)
(* get_messages() inserts exactly one synthetic result for b.  The claim   *)
(* puts it behind the results of a and c; the code puts it directly after  *)
(* the assistant message, in front of them.                                *)
(***************************************************************************)
IdsABC == <<ToolCallDict("a", "t"), ToolCallDict("b", "t"), ToolCallDict("c", "t")>>

IsResult(item, id, content) ==
    item.role = "tool" /\ item.tool_call_id = id /\ item.content = content

\* the assistant message at position k asked for a, b, c and has the
\* results of a and c behind it, followed by a user message
GapAt(list, k) ==
    /\ k + 3 <= Len(list)
    /\ list[k].role = "assistant" /\ list[k].tool_calls = IdsABC
    /\ IsResult(list[k + 1], "a", ManualResult)
    /\ IsResult(list[k + 2], "c", ManualResult)
    /\ list[k + 3].role = "user"

\* b's synthetic result stands directly behind the assistant message
FilledInFront(list, k) ==
    /\ k + 4 <= Len(list)
    /\ list[k].role = "assistant" /\ list[k].tool_calls = IdsABC
    /\ IsResult(list[k + 1], "b", NotProcessedOutput)
    /\ IsResult(list[k + 2], "a", ManualResult)
    /\ IsResult(list[k + 3], "c", ManualResult)
    /\ list[k + 4].role = "user"
    /\ Cardinality(ResultsFor(list, k, "b")) = 1

\* b's synthetic result stands behind the results of a and c
FilledBehind(list, k) ==
    /\ k + 4 <= Len(list)
    /\ list[k].role = "assistant" /\ list[k].tool_calls = IdsABC
    /\ IsResult(list[k + 1], "a", ManualResult)
    /\ IsResult(list[k + 2], "c", ManualResult)
    /\ IsResult(list[k + 3], "b", NotProcessedOutput)
    /\ list[k + 4].role = "user"
    /\ Cardinality(ResultsFor(list, k, "b")) = 1

\* the number of messages a validation pass put in front of position k
InsertedBefore(before, after, k) ==
    CHOOSE n \in 0..Len(after) :
        /\ k + n <= Len(after)
        /\ after[k + n] = before[k]
        /\ Cardinality({j \in 1..(k + n) : after[j].role /= "tool"})
             = Cardinality({j \in 1..k : before[j].role /= "tool"})

\* the claim as stated: the synthetic result follows the existing block
C3_GapFilledBehindBlock ==
    [][\A k \in 1..Len(messages) :
          (returned' /= <<>> /\ GapAt(messages, k))
              => FilledBehind(messages', k + InsertedBefore(messages, messages', k))]_vars

\* the claim as amended: the synthetic result precedes the existing block
C3_GapFilledInFrontOfBlock ==
    [][\A k \in 1..Len(messages) :
          (returned' /= <<>> /\ GapAt(messages, k))
              => FilledInFront(messages', k + InsertedBefore(messages, messages', k))]_vars

\* a returned list in which the gap of b was filled
C3_Witness ==
    \E k \in 1..Len(returned) :
        /\ k + 4 <= Len(returned)
        /\ returned[k].tool_calls = IdsABC
        /\ returned[k + 1].tool_call_id = "b" /\ returned[k + 1].content = NotProcessedOutput
        /\ returned[k + 2].tool_call_id = "a"
        /\ returned[k + 3].tool_call_id = "c"
        /\ returned[k + 4].role = "user"


(***************************************************************************)
(* Helpers of the properties of the turn loop.                             *)
(***************************************************************************)
Last(s) == s[Len(s)]

\* 1-based position of the assistant message of the current turn
AssistantPos == assistant_message_index + 1

\* positions of the max-turns error among the events of the current run
MaxTurnsErrors ==
    {n \in 1..Len(events) : events[n] = AgentEvent("agent_error", None, MaxTurnsError(max_turns))}

EventsOfType(type) == {n \in 1..Len(events) : events[n].type = type}

\* the invocations the registry saw in the current turn
TurnInvocations == {n \in 1..Len(invocations) : invocations[n].turn = turn_count}

\* the add_usage calls made for the current turn's completion
TurnUsageRecords ==
    {n \in 1..Len(usage_log) : usage_log[n].turn = turn_count /\ usage_log[n].source = "turn"}

RECURSIVE SumTokens(_)
SumTokens(log) == IF log = <<>> THEN 0 ELSE Head(log).tokens + SumTokens(Tail(log))

\* the text the model is shown for an exception message raised by a tool
FailureOutput(exception) ==
    to_model_output(error_result("Tool execution failed: " \o exception, ""))

\* the bookkeeping of the current turn is over and its locals are still live
EndOfTurn == turn_num > 0 /\ pc \in {"loop_top", "y_max_turns", "y_agent_end"}

\* what the current turn's stream holds
StreamCalls ==
    LET picked == SelectSeq(stream, LAMBDA e : e.type = "tool_call_complete")
    IN  [n \in 1..Len(picked) |-> ToolCallDict(picked[n].call_id, picked[n].name)]

StreamUsages == SelectSeq(stream, LAMBDA e : e.type = "message_complete")

StreamHadError == \E n \in 1..Len(stream) : stream[n].type = "error"

\* the texts the CLI adds to the context while the loop is suspended
ConsumerTexts == {"User confirmed: YES.", "Phase transition complete!"}

\* the consumer added a message to the context during the current turn
ConsumerTouchedTurn ==
    \E j \in (AssistantPos + 1)..Len(messages) : messages[j].content \in ConsumerTexts

(***************************************************************************)
(* C2: every message list passed to chat_completion holds, for each        *)
(* assistant message with tool_calls, a tool message for every call id in  *)
(* the tool block that directly follows it; an id without a result at that *)
(* moment is filled with the synthetic 'Tool call was not processed'       *)
(* result.                                                                 *)
(***************************************************************************)
\* the call ids of the assistant message at position k that have no result
Unanswered(list, k) == {id \in CallIds(list[k]) : ResultsFor(list, k, id) = {}}

C2_RequestCarriesEveryResult ==
    [][(pc = "loop_top" /\ pc' = "await_stream") =>
          /\ EveryCallHasResult(returned')
          /\ latest_usage' = latest_usage =>
                \A k \in 1..Len(messages) :
                    HasToolCalls(messages[k]) =>
                        \A id \in Unanswered(messages, k) :
                            \E j \in ResultsFor(returned',
                                                k + InsertedBefore(messages, messages', k) + 1,
                                                id) :
                                returned'[j].content = NotProcessedOutput]_vars

\* a request that carries a synthetic result
C2_Witness ==
    /\ pc = "await_stream"
    /\ \E j \in 1..Len(returned) :
          returned[j].role = "tool" /\ returned[j].content = NotProcessedOutput

(***************************************************************************)
(* C4: with max_turns = N and tool calls in every turn, a run() makes      *)
(* exactly N chat_completion requests, never N + 1, and then yields        *)
(* exactly one max-turns agent-error; with N = 0 no request precedes it.   *)
(***************************************************************************)
C4_TurnBudget ==
    /\ run_requests <= max_turns
    /\ Cardinality(MaxTurnsErrors) <= 1
    /\ MaxTurnsErrors /= {} => run_requests = max_turns
    /\ pc = "y_max_turns" =>
          /\ run_requests = max_turns
          /\ MaxTurnsErrors = {Len(events)}
    /\ (pc = "loop_top" /\ turn_num = max_turns) =>
          /\ ENABLED MaxTurnsReached
          /\ ~ENABLED TurnStart

\* a budget of several turns used up by turns with tool calls
C4_Witness ==
    /\ pc = "y_max_turns"
    /\ max_turns > 1
    /\ run_requests = max_turns
    /\ tool_calls /= <<>>

(***************************************************************************)
(* C5: after the consumer closed run() at a suspension point, the list     *)
(* built for the first request of the next run() has, for every tool call  *)
(* id, a tool message directly behind its assistant message and in front   *)
(* of the new user message.                                                *)
(***************************************************************************)
C5_ClosedRunIsRepaired ==
    (last_exit = "closed" /\ pc = "await_stream" /\ turn_num = 1) =>
        /\ Last(returned).role = "user"
        /\ \A k \in 1..Len(returned) :
              HasToolCalls(returned[k]) =>
                  \A id \in CallIds(returned[k]) :
                      \E j \in ResultsFor(returned, k, id) : j < Len(returned)

\* a run() closed while a tool call was being dispatched, and the next request
C5_Witness ==
    /\ last_exit = "closed"
    /\ pc = "await_stream"
    /\ turn_num = 1
    /\ \E k \in 1..Len(returned) :
          /\ HasToolCalls(returned[k])
          /\ returned[k + 1].content = NotProcessedOutput

(***************************************************************************)
(* C6: an exception E raised by the registry stays inside the loop: the    *)
(* tool_call_complete event is yielded, a tool message with the error      *)
(* result 'Tool execution failed: E', flagged is_error, is recorded for    *)
(* the call id, the other calls of the turn are dispatched, and the loop   *)
(* goes on to the next turn.                                               *)
(***************************************************************************)
C6_RaisedCallBecomesErrorResult ==
    /\ (pc = "y_tool_call_start" /\ call_index > 1) =>
          tool_calls[call_index].name /= ""
    /\ (pc = "y_tool_call_complete" /\ Last(invocations).raised) =>
          /\ Last(invocations).index = call_index
          /\ Last(events) = AgentEvent("tool_call_complete", tool_calls[call_index].call_id,
                                       FailureOutput(Last(invocations).exception))
    /\ pc = "results_inserted" =>
          /\ \A i \in 1..Len(tool_calls) :
                tool_calls[i].name /= "" =>
                    \E n \in TurnInvocations : invocations[n].index = i
          /\ \A n \in TurnInvocations :
                invocations[n].raised =>
                    /\ tool_call_results[invocations[n].index]
                          = ToolResultMessage(invocations[n].call_id,
                                              FailureOutput(invocations[n].exception), TRUE)
                    /\ \E j \in ToolBlock(messages, AssistantPos) :
                          IsResult(messages[j], invocations[n].call_id,
                                   FailureOutput(invocations[n].exception))

\* a turn follows the turn in which the first of several calls raised
C6_Witness ==
    /\ pc = "await_stream"
    /\ turn_num = 2
    /\ \E n \in 1..Len(invocations) :
          /\ invocations[n].raised
          /\ invocations[n].index = 1
          /\ invocations[n].turn = turn_count - 1
          /\ \E m \in 1..Len(invocations) :
                invocations[m].turn = turn_count - 1 /\ invocations[m].index = 2

(***************************************************************************)
(* C7: an error event of the completion stream is forwarded as an          *)
(* agent-error event and does not end the turn: the rest of the stream is  *)
(* consumed, the assistant message is recorded, the collected calls are    *)
(* dispatched, and the usage recording and the pruning of the turn run.    *)
(***************************************************************************)
C7_StreamErrorDoesNotEndTurn ==
    /\ pc = "y_stream_error" =>
          Last(events) = AgentEvent("agent_error", None, stream[stream_pos].error)
    /\ (EndOfTurn /\ StreamHadError) =>
          /\ stream_pos = Len(stream)
          /\ messages[AssistantPos].role = "assistant"
          /\ messages[AssistantPos].tool_calls = StreamCalls
          /\ \A id \in CallIds(messages[AssistantPos]) :
                ResultsFor(messages, AssistantPos, id) /= {}
          /\ \A i \in 1..Len(StreamCalls) :
                StreamCalls[i].name /= "" =>
                    \E n \in TurnInvocations : invocations[n].index = i
          /\ StreamUsages /= <<>> =>
                /\ latest_usage = Last(StreamUsages).usage[1]
                /\ Cardinality(TurnUsageRecords) = 1
          /\ PrunedPositions(messages) = {}

\* a turn whose stream had an error in front of a tool call and a usage
C7_Witness ==
    /\ pc = "loop_top"
    /\ EndOfTurn
    /\ StreamHadError
    /\ tool_calls /= <<>>
    /\ usage /= <<>>
    /\ latest_usage = usage[1]

(***************************************************************************)
(* C8: a run() consumed to exhaustion yields agent_start first and         *)
(* agent_end last, each exactly once, and the max-turns error, if any,     *)
(* directly in front of agent_end.                                         *)
(***************************************************************************)
C8_CleanEndOfStream ==
    ((pc = "idle" /\ last_exit = "exhausted" /\ runs > 0 /\ events /= <<>>)
        \/ pc = "y_agent_end") =>
        /\ events[1].type = "agent_start"
        /\ Last(events).type = "agent_end"
        /\ EventsOfType("agent_start") = {1}
        /\ EventsOfType("agent_end") = {Len(events)}
        /\ MaxTurnsErrors \subseteq {Len(events) - 1}

\* a run() that used up its turn budget and was consumed to its end
C8_Witness ==
    /\ pc = "idle"
    /\ last_exit = "exhausted"
    /\ MaxTurnsErrors /= {}
    /\ Len(events) > 3

(***************************************************************************)
(* C9: a turn with text and no tool call yields one text_complete and      *)
(* returns: no further request, no max-turns error, and the usage of the   *)
(* turn is recorded once.                                                  *)
(***************************************************************************)
C9_TextOnlyTurnEndsRun ==
    /\ (pc = "check_tools" /\ tool_calls = <<>>) => ~ENABLED TurnStart
    /\ (pc = "y_agent_end" /\ turn_num > 0 /\ tool_calls = <<>> /\ response_text /= "") =>
          /\ events[Len(events) - 1] = AgentEvent("text_complete", None, response_text)
          /\ events[Len(events) - 2].type /= "text_complete"
          /\ Last(events) = AgentEvent("agent_end", None, response_text)
          /\ MaxTurnsErrors = {}
          /\ run_requests = turn_num
          /\ Cardinality(TurnUsageRecords) = (IF usage = <<>> THEN 0 ELSE 1)
          /\ usage /= <<>> => latest_usage = usage[1]
          /\ total_usage = SumTokens(usage_log)

\* the final answer of a run, with its usage recorded
C9_Witness ==
    /\ pc = "y_agent_end"
    /\ tool_calls = <<>>
    /\ response_text /= ""
    /\ usage /= <<>>
    /\ total_usage = usage[1]

(***************************************************************************)
(* C10: after a turn with tool calls c1..cn in which the consumer did not  *)
(* touch the context, the transcript ends with the assistant message       *)
(* carrying c1..cn and exactly n tool messages with the ids c1..cn in      *)
(* request order; after a first turn with one call the transcript is       *)
(* [user, assistant(tool_calls=[c1]), tool(result of c1)].                 *)
(***************************************************************************)
AfterToolTurn == pc = "loop_top" /\ turn_num > 0 /\ tool_calls /= <<>>

\* the assistant message of the turn and, behind it, its results in order
TurnTail ==
    /\ Len(messages) >= AssistantPos + Len(tool_calls)
    /\ messages[AssistantPos].role = "assistant"
    /\ messages[AssistantPos].tool_calls = AssistantToolCalls(tool_calls)
    /\ \A i \in 1..Len(tool_calls) :
          /\ messages[AssistantPos + i].role = "tool"
          /\ messages[AssistantPos + i].tool_call_id = tool_calls[i].call_id

\* the transcript after the first turn of the agent, with one call
FirstTurnTranscript ==
    (turn_count = 1 /\ Len(tool_calls) = 1) =>
        /\ Len(messages) = 3
        /\ messages[1].role = "user" /\ messages[1].content = UserText
        /\ messages[2].role = "assistant"
        /\ messages[2].tool_calls = AssistantToolCalls(tool_calls)
        /\ IsResult(messages[3], tool_calls[1].call_id, tool_call_results[1].content)

\* the claim as stated: nothing follows the tool messages
C10_TranscriptEndsWithResults ==
    (AfterToolTurn /\ ~ConsumerTouchedTurn) =>
        /\ TurnTail
        /\ Len(messages) = AssistantPos + Len(tool_calls)
        /\ FirstTurnTranscript

\* the claim as amended: the loop-breaker message may follow the tool messages
C10_TranscriptEndsWithResultsOrLoopBreaker ==
    (AfterToolTurn /\ ~ConsumerTouchedTurn) =>
        /\ TurnTail
        /\ IF check_for_loop(history) = None
           THEN Len(messages) = AssistantPos + Len(tool_calls)
           ELSE /\ Len(messages) = AssistantPos + Len(tool_calls) + 1
                /\ Last(messages).role = "user"
                /\ Last(messages).content
                      = create_loop_breaker_prompt(check_for_loop(history))
        /\ FirstTurnTranscript

\* a turn with three calls: their results in request order, then the loop
\* breaker
C10_Witness ==
    /\ AfterToolTurn
    /\ ~ConsumerTouchedTurn
    /\ Len(tool_calls) = 3
    /\ TurnTail
    /\ check_for_loop(history) /= None
    /\ Last(messages).role = "user"


(***************************************************************************)
(* C11: no tool_call_start event reaches the consumer while the stream of  *)
(* a turn is consumed; one is yielded only at dispatch, after the stream   *)
(* has ended and the assistant message is recorded, and the next event     *)
(* after it is the tool_call_complete of the same call id.                 *)
(***************************************************************************)
C11_ToolCallStartOnlyAtDispatch ==
    /\ \A n \in 1..Len(events) :
          events[n].type = "tool_call_start" =>
              IF n = Len(events)
              THEN pc = "y_tool_call_start" \/ (pc = "idle" /\ last_exit = "closed")
              ELSE /\ events[n + 1].type = "tool_call_complete"
                   /\ events[n + 1].call_id = events[n].call_id
    /\ pc \in {"await_stream", "y_text_delta", "y_stream_error"} =>
          Last(events).type /= "tool_call_start"
    /\ pc = "y_tool_call_start" =>
          /\ stream_pos = Len(stream)
          /\ messages[AssistantPos].role = "assistant"
          /\ messages[AssistantPos].tool_calls = AssistantToolCalls(tool_calls)
          /\ Last(events) = AgentEvent("tool_call_start", tool_calls[call_index].call_id,
                                       tool_calls[call_index].name)

\* dispatch of a call whose start the stream had announced before its end
C11_Witness ==
    /\ pc = "y_tool_call_start"
    /\ \E n \in 1..Len(stream) :
          /\ stream[n].type = "tool_call_start"
          /\ stream[n].call_id = tool_calls[call_index].call_id
    /\ \E n \in 1..Len(events) : events[n].type = "text_delta"

(***************************************************************************)
(* C12: for a tool call without a name the registry is never invoked, yet  *)
(* an error result keyed by the call's id is recorded in the transcript    *)
(* with the results of the turn's other calls, which are dispatched in     *)
(* request order.                                                          *)
(***************************************************************************)
MissingNameOutput == to_model_output(error_result("Tool call missing name", ""))

\* the consumer added a tool result of its own behind the turn's assistant
ConsumerResultInTurn ==
    \E j \in (AssistantPos + 1)..Len(messages) :
        messages[j].role = "tool" /\ messages[j].content \in ConsumerTexts

C12_NamelessCallGetsErrorResult ==
    /\ \A n \in 1..Len(invocations) : invocations[n].name /= ""
    /\ \A n, m \in TurnInvocations :
          n < m => invocations[n].index < invocations[m].index
    /\ pc = "results_inserted" =>
          /\ Len(tool_call_results) = Len(tool_calls)
          /\ \A i \in 1..Len(tool_calls) :
                IF tool_calls[i].name = ""
                THEN /\ \A n \in TurnInvocations : invocations[n].index /= i
                     /\ tool_call_results[i]
                           = ToolResultMessage(tool_calls[i].call_id, MissingNameOutput, TRUE)
                     /\ \E j \in ToolBlock(messages, AssistantPos) :
                           IsResult(messages[j], tool_calls[i].call_id, MissingNameOutput)
                ELSE \E n \in TurnInvocations : invocations[n].index = i
          /\ ~ConsumerResultInTurn => TurnTail

\* a turn with a nameless call behind two named ones, its results in place
C12_Witness ==
    /\ pc = "results_inserted"
    /\ \E i \in 2..Len(tool_calls) :
          /\ tool_calls[i].name = ""
          /\ IsResult(messages[AssistantPos + i], tool_calls[i].call_id, MissingNameOutput)
    /\ Cardinality(TurnInvocations) = 2

(***************************************************************************)
(* C19: when check_for_loop() reports a loop after a turn's dispatch, the  *)
(* loop breaker is appended as one user message behind the turn's tool     *)
(* results, no error or end event is yielded for it, and the loop goes on  *)
(* to the next turn as far as the turn budget allows.                      *)
(***************************************************************************)
IsLoopBreaker(item) ==
    /\ item.role = "user"
    /\ item.content = create_loop_breaker_prompt(check_for_loop(history))

C19_LoopBreakerNudgesTheLoop ==
    (AfterToolTurn /\ check_for_loop(history) /= None) =>
        /\ IsLoopBreaker(Last(messages))
        /\ Cardinality({j \in (AssistantPos + 1)..Len(messages) :
                           IsLoopBreaker(messages[j])}) = 1
        /\ \A id \in CallIds(messages[AssistantPos]) :
              ResultsFor(messages, AssistantPos, id) /= {}
        /\ Last(events).type \notin {"agent_error", "agent_end"}
        /\ IF MoreTurns(turn_num, max_turns)
           THEN runs + requests < MaxCalls => ENABLED TurnStart
           ELSE ENABLED MaxTurnsReached

\* a loop was reported in a turn that is not the last of the budget
C19_Witness ==
    /\ AfterToolTurn
    /\ check_for_loop(history) /= None
    /\ IsLoopBreaker(Last(messages))
    /\ MoreTurns(turn_num, max_turns)
    /\ runs + requests < MaxCalls


(***************************************************************************)
(* Measures of a transcript for the pruning properties.                    *)
(***************************************************************************)
\* a tool result the pruning scan looks at
IsToolOutput(item) == item.role = "tool" /\ Truthy(item.tool_call_id)

\* the token count the scan takes for a message
ToolTokens(item) ==
    IF item.token_count /= 0 THEN item.token_count ELSE CountTokens(item.content)

\* the tokens of the tool results at the positions of S
RECURSIVE TokensAt(_, _)
TokensAt(msgs, S) ==
    IF S = {} THEN 0
    ELSE LET j == CHOOSE k \in S : TRUE
         IN  ToolTokens(msgs[j]) + TokensAt(msgs, S \ {j})

\* the tokens of tool output newer than position j
NewerTokens(msgs, j) ==
    TokensAt(msgs, {k \in (j + 1)..Len(msgs) : IsToolOutput(msgs[k])})

\* message j holds some of the most recent PRUNE_PROTECT_TOKENS tokens of tool output
HoldsProtectedTokens(msgs, j) ==
    /\ IsToolOutput(msgs[j])
    /\ ToolTokens(msgs[j]) > 0
    /\ NewerTokens(msgs, j) < PRUNE_PROTECT_TOKENS

\* the tool results in front of the frontier that lie beyond the protected window
BeyondWindow(msgs) ==
    {j \in 1..Len(msgs) :
        /\ IsToolOutput(msgs[j])
        /\ NewerTokens(msgs, j) >= PRUNE_PROTECT_TOKENS
        /\ \A k \in j..Len(msgs) : IsToolOutput(msgs[k]) => msgs[k].pruned_at = None}

UserCount(msgs) == Cardinality({j \in 1..Len(msgs) : msgs[j].role = "user"})

\* the positions at which two transcripts of one length differ
ChangedPositions(before, after) == {j \in 1..Len(before) : after[j] /= before[j]}

IsPruned(item) ==
    /\ item.content = PrunedPlaceholder
    /\ item.token_count = CountTokens(PrunedPlaceholder)
    /\ item.pruned_at /= None

(***************************************************************************)
(* C13: a second prune_tool_outputs() right after a first one returns 0    *)
(* and changes no message: pruning twice leaves what pruning once leaves.  *)
(***************************************************************************)
C13_PruneTwiceIsPruneOnce ==
    LET once == prune_tool_outputs(messages)
    IN  /\ prune_tool_outputs_returns(once) = 0
        /\ prune_tool_outputs(once) = once

\* a transcript in which the first pruning replaces a result
C13_Witness ==
    /\ prune_tool_outputs_returns(messages) > 0
    /\ prune_tool_outputs(messages) /= messages
    /\ prune_tool_outputs(prune_tool_outputs(messages)) = prune_tool_outputs(messages)

(***************************************************************************)
(* C14: with at least two user messages, prune_tool_outputs() changes the  *)
(* transcript only when the tool-result tokens beyond the protected        *)
(* 40,000 amount to at least 20,000, and then replaces exactly those       *)
(* results; with fewer than two user messages it changes nothing.          *)
(***************************************************************************)
C14_PrunesOnlyAboveMinimumBeyondWindow ==
    LET beyond == BeyondWindow(messages)
        after  == prune_tool_outputs(messages)
    IN  IF UserCount(messages) >= 2
           /\ TokensAt(messages, beyond) >= PRUNE_MINIMUM_TOKENS
        THEN /\ ChangedPositions(messages, after) = beyond
             /\ \A j \in beyond : IsPruned(after[j])
             /\ prune_tool_outputs_returns(messages) = Cardinality(beyond)
        ELSE /\ after = messages
             /\ prune_tool_outputs_returns(messages) = 0

(***************************************************************************)
(* C15: prune_tool_outputs() never replaces the content of a tool message  *)
(* that holds any of the most recent 40,000 tokens of tool output; the     *)
(* newest tool result is never pruned.                                     *)
(***************************************************************************)
C15_ProtectedWindowIsUntouched ==
    \A j \in 1..Len(messages) :
        HoldsProtectedTokens(messages, j) =>
            prune_tool_outputs(messages)[j] = messages[j]

(***************************************************************************)
(* C16: prune_tool_outputs() keeps the number and order of the messages,   *)
(* every role, tool_call_id and tool_calls, and the content of every user  *)
(* and assistant message; only content, token_count and pruned_at of tool  *)
(* messages change, and a transcript in which every call has its result    *)
(* behind its assistant message stays one.                                 *)
(***************************************************************************)
C16_PruneChangesOnlyToolContent ==
    LET after == prune_tool_outputs(messages)
    IN  /\ Len(after) = Len(messages)
        /\ \A j \in 1..Len(messages) :
              IF j <= Len(after)
              THEN /\ after[j].role = messages[j].role
                   /\ after[j].tool_call_id = messages[j].tool_call_id
                   /\ after[j].tool_calls = messages[j].tool_calls
                   /\ after[j] /= messages[j] => messages[j].role = "tool"
              ELSE FALSE
        /\ EveryCallHasResult(messages) => EveryCallHasResult(after)

\* a pruning that replaces a result in a transcript with an answered call
C16_Witness ==
    /\ \E j \in 1..Len(messages) : HasToolCalls(messages[j])
    /\ EveryCallHasResult(messages)
    /\ \E j \in 1..Len(messages) :
          /\ messages[j].role = "tool"
          /\ prune_tool_outputs(messages)[j].content /= messages[j].content


(***************************************************************************)
(* C17: after replace_with_summary(S) the transcript is exactly three      *)
(* messages, user (embedding S), assistant, user, none with tool_calls,    *)
(* each counted with the tokens of its own text, and the latest usage is   *)
(* the one recorded for the summary, added once to the cumulative usage.   *)
(***************************************************************************)
\* the step of the loop head in which the transcript is compacted
CompactionStep ==
    /\ pc = "loop_top" /\ pc' = "await_stream"
    /\ Len(usage_log') = Len(usage_log) + 1

RECURSIVE TokenCountSum(_)
TokenCountSum(msgs) ==
    IF msgs = <<>> THEN 0 ELSE msgs[1].token_count + TokenCountSum(Tail(msgs))

C18_CompressionFollowsLatestUsage ==
    /\ needs_compression(latest_usage) <=> 5 * latest_usage > 4 * context_window
    /\ latest_usage \in {0} \cup UsageTotals
    /\ latest_usage <= 800000 => ~needs_compression(latest_usage)
    /\ latest_usage >= 800001 => needs_compression(latest_usage)

\* the latest usage is at the threshold while the cumulative usage and the
\* stored messages are far above it
C18_Witness ==
    /\ latest_usage = 800000
    /\ ~needs_compression(latest_usage)
    /\ total_usage > 800000
    /\ TokenCountSum(messages) > 800000


(***************************************************************************)
(* C20: whenever the `async with Agent(...)` block is left, by the end of  *)
(* its body, by an exception, or after the consumer closed the event       *)
(* stream, the chat client is closed and the MCP manager is shut down.     *)
(***************************************************************************)
C20_LeavingTheBlockCleansUp ==
    block \in {"left", "left_raising"} =>
        /\ client = "closed"
        /\ mcp_manager = "shutdown"
        /\ session = None

\* the block is left by an exception after the consumer closed the stream of
\* a run that had made a request
C20_Witness ==
    /\ block = "left_raising"
    /\ last_exit = "closed"
    /\ requests > 0
    /\ client = "closed"
    /\ mcp_manager = "shutdown"


(***************************************************************************)
(* C27: when the consumer appended a user message while the loop was       *)
(* suspended at a tool_call_complete event, then after the insertion of    *)
(* the turn's results the tool messages of the turn lie in one block       *)
(* between the assistant message and that user message, in request order,  *)
(* whichever call's event the message was appended at.                     *)
(***************************************************************************)
PhaseText == "Phase transition complete!"

\* the positions behind the turn's assistant message the CLI injected at
InjectedAt ==
    {j \in (AssistantPos + 1)..Len(messages) :
        messages[j].role = "user" /\ messages[j].content = PhaseText}

TurnResultsFor(id) ==
    {j \in (AssistantPos + 1)..Len(messages) :
        messages[j].role = "tool" /\ messages[j].tool_call_id = id}

C28_OneResultForUserConfirm ==
    (EndOfTurn /\ tool_calls /= <<>>) =>
        \A i \in 1..Len(tool_calls) :
            tool_calls[i].name = "user_confirm" =>
                Cardinality(TurnResultsFor(tool_calls[i].call_id)) = 1


(***************************************************************************)
(* C24: every record returned by get_messages() has a string as content,   *)
(* never None: an assistant message added without content and a tool       *)
(* result added with None are stored and returned with the empty string.   *)
(***************************************************************************)
C24_ContentIsAlwaysAString ==
    /\ \A k \in 1..Len(returned) : returned[k].content /= None
    /\ \A j \in 1..Len(messages) :
          messages[j].role \in {"assistant", "tool"} => messages[j].content /= None

\* a returned list with a content-free assistant message and an empty result
C24_Witness ==
    \E k \in 1..Len(returned) :
        /\ HasToolCalls(returned[k]) /\ returned[k].content = ""
        /\ \E j \in ToolBlock(returned, k) :
              returned[j].content = "" /\ returned[j].tool_call_id = "b"

(***************************************************************************)
(* C29: every tool message in the list returned by get_messages() lies in  *)
(* the tool block directly behind an assistant message whose tool_calls    *)
(* hold the message's tool_call_id.                                        *)
(***************************************************************************)
\* the tool message at position k answers a call of the assistant message
\* whose tool block it lies in
InBlockOfItsCall(list, k) ==
    \E a \in 1..(k - 1) :
        /\ HasToolCalls(list[a])
        /\ k \in ToolBlock(list, a)
        /\ list[k].tool_call_id \in CallIds(list[a])

C29_ToolMessagesFollowTheirCall ==
    \A k \in 1..Len(returned) :
        returned[k].role = "tool" => InBlockOfItsCall(returned, k)

(***************************************************************************)
(* C30: a second get_messages() directly after a first one returns the     *)
(* same list and inserts nothing into the transcript.                      *)
(***************************************************************************)
C30_SecondGetMessagesChangesNothing ==
    returned /= <<>> =>
        \A v \in validate_message_history(messages) :
            /\ v = messages
            /\ WireMessages(v) = returned


(***************************************************************************)
(* C26: check_for_loop() gives a diagnosis only when the recorded history  *)
(* ends in at least three consecutive matching actions; two identical      *)
(* consecutive actions do not trigger it, and no loop breaker is added     *)
(* for them.                                                               *)
(***************************************************************************)
\* the history ends in n matching actions
EndsInRunOf(h, n) ==
    /\ Len(h) >= n
    /\ \A k \in (Len(h) - n + 1)..Len(h) : h[k] = h[Len(h)]

C26_LoopNeedsThreeMatchingActions ==
    /\ check_for_loop(history) /= None => EndsInRunOf(history, 3)
    /\ ~EndsInRunOf(history, 3) => check_for_loop(history) = None
    /\ (AfterToolTurn /\ ~EndsInRunOf(history, 3)) =>
          \A j \in (AssistantPos + 1)..Len(messages) :
              messages[j].role = "user" => messages[j].content = PhaseText

\* the second of two identical calls was dispatched behind a different action
C26_Witness ==
    /\ pc = "y_tool_call_complete"
    /\ EndsInRunOf(history, 2)
    /\ ~EndsInRunOf(history, 3)
    /\ Len(history) = 3
    /\ check_for_loop(history) = None

(***************************************************************************)
(* The git tools: GitBranchTool.execute and GitPushTool.execute working on *)
(* one repository with one remote.                                         *)
(***************************************************************************)
BranchNames == {NoBranch, Main, Master, HeadRef, FixBranch}

Remotes == {"origin"}

\* the text of a ToolResult: what it says and the branch it names
Says(what, b) == [what |-> what, branch |-> b]

\* one execution of a git tool: the request and the result it returned
Invoked(tool, action, b, force, res) ==
    [tool |-> tool, action |-> action, branch_name |-> b, force |-> force,
     result |-> res]

\* the local branch `git push <remote> <name>` sends, and the remote branch
\* it updates: HEAD stands for the branch that is checked out
PushedBranch(name, active) == IF name = HeadRef THEN active ELSE name

\* the repository after a git tool ran
Repo(bs, active, heads) ==
    [branches |-> bs, active_branch |-> active, remote_heads |-> heads]

SameRepo == Repo(branches, active_branch, remote_heads)

\* the remote after branch b was pushed to it
Pushed(heads, b, force) ==
    [h \in DOMAIN heads \cup {b} |->
        IF h = b THEN [force |-> force] ELSE heads[h]]

\* GitBranchTool.execute(action, branch_name); merged says whether
\* `git branch -d` finds the branch merged
GitBranchExecuteResult(action, b, merged) ==
    CASE action = "create" ->
           IF b = NoBranch
           THEN [repo |-> SameRepo, result |-> error_result(Says("name required", b), "")]
           ELSE IF b \in {Main, Master, HeadRef}
           THEN [repo |-> SameRepo, result |-> error_result(Says("protected", b), "")]
           ELSE IF b \in branches
           THEN [repo |-> SameRepo, result |-> error_result(Says("already exists", b), "")]
           ELSE [repo |-> Repo(branches \cup {b}, b, remote_heads),
                 result |-> success_result(Says("created and switched", b))]
      [] action = "switch" ->
           IF b = NoBranch
           THEN [repo |-> SameRepo, result |-> error_result(Says("name required", b), "")]
           ELSE IF b \notin branches
           THEN [repo |-> SameRepo, result |-> error_result(Says("does not exist", b), "")]
           ELSE [repo |-> Repo(branches, b, remote_heads),
                 result |-> success_result(Says("switched", b))]
      [] action = "list" ->
           [repo |-> SameRepo, result |-> success_result(Says("branches", b))]
      [] action = "delete" ->
           IF b = NoBranch
           THEN [repo |-> SameRepo, result |-> error_result(Says("name required", b), "")]
           ELSE IF b \in {Main, Master}
           THEN [repo |-> SameRepo, result |-> error_result(Says("protected", b), "")]
           ELSE IF b \notin branches
           THEN [repo |-> SameRepo, result |-> error_result(Says("does not exist", b), "")]
           ELSE IF b = active_branch
           THEN [repo |-> SameRepo, result |-> error_result(Says("current branch", b), "")]
           ELSE IF ~merged
           THEN [repo |-> SameRepo, result |-> error_result(Says("git command failed", b), "")]
           ELSE [repo |-> Repo(branches \ {b}, active_branch, remote_heads),
                 result |-> success_result(Says("deleted", b))]
      [] action = "current" ->
           [repo |-> SameRepo, result |-> success_result(Says("current", active_branch))]
      [] OTHER ->
           [repo |-> SameRepo, result |-> error_result(Says("unknown action", b), "")]

\* invocation.session as the tools read it: <<>> when the invocation has no
\* session attribute or holds None, else <<user_confirmed_push_pr>>
Sessions == {<<>>, <<FALSE>>, <<TRUE>>}

\* `hasattr(invocation, 'session') and invocation.session` holds and
\* user_confirmed_push_pr does not
ConfirmationMissing(invocation_session) ==
    invocation_session /= <<>> /\ ~invocation_session[1]

\* GitPushTool.execute(branch, remote, force); accepted says whether the
\* remote takes a push that is not forced
GitPushExecuteResult(b, remote, force, invocation_session, accepted) ==
    LET name == IF b /= NoBranch THEN b ELSE active_branch
        sent == PushedBranch(name, active_branch)
    IN  IF ConfirmationMissing(invocation_session)
        THEN [repo |-> SameRepo, result |-> error_result(Says("confirmation required", b), "")]
        ELSE IF force /\ name \in {Main, Master}
        THEN [repo |-> SameRepo, result |-> error_result(Says("protected", name), "")]
        ELSE IF remote \notin Remotes
        THEN [repo |-> SameRepo, result |-> error_result(Says("remote does not exist", name), "")]
        ELSE IF sent \notin branches \/ (~force /\ ~accepted)
        THEN [repo |-> SameRepo, result |-> error_result(Says("git command failed", name), "")]
        ELSE [repo |-> Repo(branches, active_branch, Pushed(remote_heads, sent, force)),
              result |-> success_result(Says(IF force THEN "force pushed" ELSE "pushed", name))]

\* a git tool ran: the repository and the record of the invocation
GitToolRan(tool, action, b, force, ran) ==
    /\ branches' = ran.repo.branches
    /\ active_branch' = ran.repo.active_branch
    /\ remote_heads' = ran.repo.remote_heads
    /\ tool_result' = Invoked(tool, action, b, force, ran.result)
    /\ UNCHANGED <<pull_requests, cmVars, agentVars, lifeVars, wfVars, memVars>>

GitBranchExecute ==
    \E action \in {"create", "switch", "list", "delete", "current", "rename"},
       b \in BranchNames, merged \in BOOLEAN :
        GitToolRan("git_branch", action, b, FALSE,
                   GitBranchExecuteResult(action, b, merged))

GitPushExecute ==
    \E b \in BranchNames, remote \in {"origin", "upstream"},
       force \in BOOLEAN, invocation_session \in Sessions,
       accepted \in BOOLEAN :
        LET ran == GitPushExecuteResult(b, remote, force, invocation_session,
                                        accepted)
        IN  /\ branches' = ran.repo.branches
            /\ active_branch' = ran.repo.active_branch
            /\ remote_heads' = ran.repo.remote_heads
            /\ tool_result' = [tool |-> "git_push", action |-> "push",
                               branch_name |-> b, force |-> force,
                               session |-> invocation_session,
                               result |-> ran.result]
            /\ UNCHANGED <<pull_requests, cmVars, agentVars, lifeVars, wfVars,
                           memVars>>

\* CreatePRTool.execute(head); repo_known says whether the repository is
\* given or found from the origin remote, created whether GitHub made the
\* pull request (GitHubClient.create_pr raises RuntimeError when not)
CreatePRExecuteResult(head, invocation_session, repo_known, created) ==
    IF ConfirmationMissing(invocation_session)
    THEN [pull_requests |-> pull_requests,
          result |-> error_result(Says("confirmation required", head), "")]
    ELSE IF ~repo_known
    THEN [pull_requests |-> pull_requests,
          result |-> error_result(Says("could not determine repository", head), "")]
    ELSE IF ~created
    THEN [pull_requests |-> pull_requests,
          result |-> error_result(Says("failed to create PR", head), "")]
    ELSE [pull_requests |-> pull_requests \cup {head},
          result |-> success_result(Says("created PR", head))]

CreatePRExecute ==
    \E head \in {FixBranch, FixBranchFlat}, invocation_session \in Sessions,
       repo_known \in BOOLEAN, created \in BOOLEAN :
        LET ran == CreatePRExecuteResult(head, invocation_session, repo_known,
                                         created)
        IN  /\ pull_requests' = ran.pull_requests
            /\ tool_result' = [tool |-> "create_pr", action |-> "create",
                               branch_name |-> head, force |-> FALSE,
                               session |-> invocation_session,
                               result |-> ran.result]
            /\ UNCHANGED <<branches, active_branch, remote_heads, cmVars,
                           agentVars, lifeVars, wfVars, memVars>>

\* the repository is cloned with main or master as its default branch
InitGit ==
    /\ ContextIdle
    /\ WorkflowIdle
    /\ MemoryIdle
    /\ \E default \in {Main, Master} :
        /\ branches = {default}
        /\ active_branch = default
    /\ remote_heads = <<>>
    /\ pull_requests = {}
    /\ tool_result = <<>>

NextGit ==
    \/ GitBranchExecute
    \/ GitPushExecute
    \/ CreatePRExecute

SpecGit == InitGit /\ [][NextGit]_vars

\* a git tool was asked to create or delete main or master
ProtectedBranchRequest(r) ==
    /\ r.tool = "git_branch"
    /\ r.action \in {"create", "delete"}
    /\ r.branch_name \in {Main, Master}

\* C25 (branch part): a git_branch request to create or delete main or
\* master returns an error that names the branch as protected and leaves
\* the repository as it was
C25_BranchToolRefusesProtectedNames ==
    [][tool_result' /= tool_result /\ ProtectedBranchRequest(tool_result')
         => /\ ~tool_result'.result.success
            /\ tool_result'.result.error.what = "protected"
            /\ tool_result'.result.error.branch = tool_result'.branch_name
            /\ UNCHANGED <<branches, active_branch, remote_heads>>]_vars

\* C25: no invocation of a git tool deletes main or master, creates them,
\* or updates main or master on the remote with a forced push
C25_ProtectedBranchesAreNeverForced ==
    [][\A b \in {Main, Master} :
         /\ (b \in branches) = (b \in branches')
         /\ (/\ b \in DOMAIN remote_heads'
             /\ (b \notin DOMAIN remote_heads \/ remote_heads'[b] /= remote_heads[b]))
            => ~remote_heads'[b].force]_vars

\* git_push was asked to push HEAD by force while main or master is checked
\* out, and it reported success
C25_ForcedHeadPush ==
    /\ tool_result /= <<>>
    /\ tool_result.tool = "git_push"
    /\ tool_result.force
    /\ tool_result.branch_name = HeadRef
    /\ tool_result.result.success
    /\ active_branch \in {Main, Master}

(***************************************************************************)
(* BranchMemoryManager: one JSON file per branch in the memory directory.  *)
(* A memory is modelled by the fields the workflow writes; the time stamps *)
(* and the summaries are left out.  completed_steps, a list that never     *)
(* holds a step twice, is the set of its steps, and the step "Completed    *)
(* phase: <p>" is the phase p.                                             *)
(***************************************************************************)
\* BranchMemoryData(branch_name=...) with the defaults of the dataclass
BranchMemoryData(b) ==
    [branch_name     |-> b,
     issue_url       |-> NoUrl,
     issue_number    |-> <<>>,
     status          |-> "in_progress",
     current_phase   |-> "repository_understanding",
     completed_steps |-> {}]

\* _get_memory_file: "/" and "\" of the branch name become "_"
safe_name(b) ==
    [i \in 1..Len(b) |-> IF b[i] \in {"/", "\\"} THEN "_" ELSE b[i]]

_get_memory_file(b) == <<"branch-">> \o safe_name(b) \o <<".json">>

\* load_branch: the dict in the branch's file, <<>> (None) without a file.
\* json.loads gives back what json.dumps(asdict(memory)) wrote: the fields
\* are texts, integers, None and lists of texts.
load_branch(files, b) ==
    IF _get_memory_file(b) \in DOMAIN files
    THEN <<files[_get_memory_file(b)]>>
    ELSE <<>>

\* save_branch: the memory directory with the memory's file written
save_branch(files, memory) ==
    [f \in DOMAIN files \cup {_get_memory_file(memory.branch_name)} |->
        IF f = _get_memory_file(memory.branch_name) THEN memory ELSE files[f]]

\* the memories the callers save
IssueNumbers == {<<>>, <<21>>, <<7>>}

MemoryBranches == {Main, FixBranch, FixBranchFlat}

Memories ==
    {[BranchMemoryData(b) EXCEPT !.issue_number = n, !.current_phase = p] :
        b \in MemoryBranches, n \in IssueNumbers,
        p \in {"repository_understanding", "planning"}}

\* the log of the memory saved last under each branch name
Remembered(log, memory) ==
    [b \in DOMAIN log \cup {memory.branch_name} |->
        IF b = memory.branch_name THEN memory ELSE log[b]]

SaveBranch ==
    \E memory \in Memories :
        /\ memory_files' = save_branch(memory_files, memory)
        /\ saved' = Remembered(saved, memory)
        /\ UNCHANGED <<loaded, cmVars, agentVars, lifeVars, wfVars, gitVars>>

LoadBranch ==
    \E b \in MemoryBranches :
        /\ loaded' = [branch_name |-> b, memory |-> load_branch(memory_files, b)]
        /\ UNCHANGED <<memory_files, saved, cmVars, agentVars, lifeVars,
                       wfVars, gitVars>>

InitMemory ==
    /\ ContextIdle
    /\ WorkflowIdle
    /\ GitIdle
    /\ MemoryIdle

NextMemory ==
    \/ SaveBranch
    \/ LoadBranch

SpecMemory == InitMemory /\ [][NextMemory]_vars

\* C23: for every branch name that a memory was saved for, load_branch
\* returns the memory saved last for that name, whatever was saved for
\* other names since
C23_LoadReturnsTheLastSaveOfTheBranch ==
    \A b \in DOMAIN saved : load_branch(memory_files, b) = <<saved[b]>>

(***************************************************************************)
(* OSSWorkflow: start and mark_phase_complete on the workflow of one       *)
(* repository, with the branch memory they save to.  The branches of the   *)
(* repository stay as they are while the workflow is called; what the      *)
(* working tree holds is an input of each call.                            *)
(***************************************************************************)
\* mark_phase_complete: phase_order
phase_order == <<"repository_understanding", "issue_intake", "planning",
                 "implementation", "verification", "validation",
                 "commit_and_pr", "complete">>

\* phase_order.index(phase)
PhaseIndex(p) == CHOOSE i \in 1..Len(phase_order) : phase_order[i] = p

IssueUrls == {<<"https://github.com", "o", "r", "issues", "21">>,
              <<"https://github.com", "o", "r", "issues", "7">>,
              <<"https://github.com", "o", "r", "pull", "21">>}

\* int() of the digits of an issue URL
IntOf(digits) == IF digits = "21" THEN 21 ELSE 7

\* GitHubClient.parse_issue_url matches github.com/<owner>/<repo>/issues/<n>
IsIssueUrl(url) == Len(url) = 5 /\ url[4] = "issues" /\ url[5] \in {"21", "7"}

\* GitHubClient.parse_issue_url(url)["issue_number"] of a URL that matches
parse_issue_url(url) == <<IntOf(url[5])>>

\* config.oss.branch_naming_pattern.format(number=n)
expected_branch(n) == IF n = <<21>> THEN FixBranch ELSE <<"fix", "/", "issue-7">>

\* WorkflowState: the fields start and mark_phase_complete write
WorkflowState(p, url, n, b, changed) ==
    [phase |-> p, issue_url |-> url, issue_number |-> n, branch_name |-> b,
     changes_made |-> changed]

\* the steps of a memory with one more step, unless it is there already
WithStep(memory, step) ==
    [memory EXCEPT !.completed_steps = memory.completed_steps \cup {step}]

\* the memory of branch b, or a new one
MemoryOf(files, b) ==
    IF load_branch(files, b) /= <<>> THEN load_branch(files, b)[1]
                                     ELSE BranchMemoryData(b)

\* BranchMemoryManager.add_completed_step(b, step)
add_completed_step(files, b, step) ==
    save_branch(files, WithStep(MemoryOf(files, b), step))

\* BranchMemoryManager.save_workflow_state(state); current is what
\* get_current_branch() answers
save_workflow_state(files, state, current) ==
    LET b == IF state.branch_name /= NoBranch THEN state.branch_name ELSE current
        memory == [MemoryOf(files, b) EXCEPT
                     !.current_phase = state.phase,
                     !.issue_url = state.issue_url,
                     !.issue_number = state.issue_number,
                     !.status = IF state.phase /= "complete" THEN "in_progress"
                                                              ELSE "complete"]
    IN  IF b = NoBranch THEN files
        ELSE save_branch(files, WithStep(memory, state.phase))

\* the state the workflow is in
CurrentState ==
    WorkflowState(phase, issue_url, issue_number, branch_name, changes_made)

\* the workflow's state after a call
StateBecomes(state) ==
    /\ phase' = state.phase
    /\ issue_url' = state.issue_url
    /\ issue_number' = state.issue_number
    /\ branch_name' = state.branch_name
    /\ changes_made' = state.changes_made

\* OSSWorkflow.start(issue_url) of the workflow whose state is `was`
StartResult(was, url) ==
    IF ~IsIssueUrl(url)
    THEN [state |-> [was EXCEPT !.issue_url = url],
          files |-> memory_files, outcome |-> "raised"]
    ELSE LET n == parse_issue_url(url)
             b == IF expected_branch(n) \in branches THEN expected_branch(n)
                                                       ELSE was.branch_name
             state == WorkflowState("repository_understanding", url, n, b,
                                    was.changes_made)
         IN  [state |-> state,
              files |-> save_workflow_state(memory_files, state, active_branch),
              outcome |-> "returned"]

Start ==
    \E url \in IssueUrls :
        LET after == StartResult(CurrentState, url)
        IN  /\ StateBecomes(after.state)
            /\ memory_files' = after.files
            /\ wf_call' = [op |-> "start", outcome |-> after.outcome]
            /\ UNCHANGED <<_workflows, continue_message, loaded, saved, cmVars,
                           agentVars, lifeVars, gitVars>>

\* a mark_phase_complete that moves on from the phase it was given
MarkFromGivenPhase(was, given, has_changes, modified) ==
    LET b == IF was.branch_name /= NoBranch THEN was.branch_name ELSE active_branch
        on_protected == active_branch \in {Main, Master}
        state == [was EXCEPT
                    !.phase = phase_order[PhaseIndex(given) + 1],
                    !.changes_made = was.changes_made \/ was.phase = "implementation"]
    IN  IF \/ was.phase = "planning" /\ on_protected /\ has_changes
           \/ was.phase = "implementation" /\ (on_protected \/ ~modified)
        THEN [state |-> was, files |-> memory_files, outcome |-> "raised"]
        ELSE IF PhaseIndex(given) < Len(phase_order)
        THEN [state |-> state,
              files |-> save_workflow_state(
                            add_completed_step(memory_files, b, given),
                            state, active_branch),
              outcome |-> "returned"]
        ELSE [state |-> was, files |-> memory_files, outcome |-> "returned"]

\* a mark_phase_complete that sets changes_made before it validates
MarkFlaggingBeforeChecks(was, given, has_changes, modified) ==
    LET b == IF was.branch_name /= NoBranch THEN was.branch_name ELSE active_branch
        on_protected == active_branch \in {Main, Master}
        current_idx == PhaseIndex(was.phase)
        flagged == [was EXCEPT
                      !.changes_made = was.changes_made \/ was.phase = "implementation"]
        state == [flagged EXCEPT
                    !.phase = IF current_idx < Len(phase_order)
                                  THEN phase_order[current_idx + 1] ELSE was.phase]
    IN  IF \/ was.phase = "planning" /\ on_protected /\ has_changes
           \/ was.phase = "implementation" /\ (on_protected \/ ~modified)
        THEN [state |-> flagged, files |-> memory_files, outcome |-> "raised"]
        ELSE IF current_idx < Len(phase_order)
        THEN [state |-> state,
              files |-> save_workflow_state(
                            add_completed_step(memory_files, b, given),
                            state, active_branch),
              outcome |-> "returned"]
        ELSE [state |-> was, files |-> memory_files, outcome |-> "returned"]

\* OSSWorkflow.mark_phase_complete(given) of the workflow whose state is
\* `was`; has_changes is whether git status reports anything, modified
\* whether it reports a line that starts with "M ", "A " or "D ".  The
\* callers give the workflow's own phase (the orchestrator tool) or planning.
MarkPhaseCompleteResult(was, given, has_changes, modified) ==
    LET b == IF was.branch_name /= NoBranch THEN was.branch_name ELSE active_branch
        on_protected == active_branch \in {Main, Master}
        current_idx == PhaseIndex(was.phase)
        state == [was EXCEPT
                    !.phase = IF current_idx < Len(phase_order)
                                  THEN phase_order[current_idx + 1] ELSE was.phase,
                    !.changes_made = was.changes_made \/ was.phase = "implementation"]
    IN  IF \/ was.phase = "planning" /\ on_protected /\ has_changes
           \/ was.phase = "implementation" /\ (on_protected \/ ~modified)
        THEN [state |-> was, files |-> memory_files, outcome |-> "raised"]
        ELSE IF current_idx < Len(phase_order)
        THEN [state |-> state,
              files |-> save_workflow_state(
                            add_completed_step(memory_files, b, given),
                            state, active_branch),
              outcome |-> "returned"]
        ELSE [state |-> was, files |-> memory_files, outcome |-> "returned"]

MarkPhaseComplete ==
    \E given \in {phase, "planning"}, has_changes \in BOOLEAN,
       modified \in BOOLEAN :
        LET after == MarkPhaseCompleteResult(CurrentState, given, has_changes,
                                             has_changes /\ modified)
        IN  /\ StateBecomes(after.state)
            /\ memory_files' = after.files
            /\ wf_call' = [op |-> "mark_phase_complete", outcome |-> after.outcome]
            /\ UNCHANGED <<_workflows, continue_message, loaded, saved, cmVars,
                           agentVars, lifeVars, gitVars>>

\* OSSWorkflow(config, repo_path).state: a WorkflowState with its defaults
NewWorkflow ==
    WorkflowState("repository_understanding", NoUrl, <<>>, NoBranch, FALSE)

\* WorkflowOrchestratorTool._get_workflow(repo_path).state: the workflow the
\* tool made for the repository, or the one it makes now
_get_workflow == IF _workflows = <<>> THEN NewWorkflow ELSE _workflows[1]

\* OSSWorkflow.resume() of the workflow whose state is `was`:
\* load_current_branch() reads the memory of the branch that is checked out
resume(was) ==
    LET memory == load_branch(memory_files, active_branch)
    IN  IF memory = <<>> THEN was
        ELSE [was EXCEPT !.phase = memory[1].current_phase,
                         !.issue_url = memory[1].issue_url,
                         !.issue_number = memory[1].issue_number,
                         !.branch_name = memory[1].branch_name]

\* OSSWorkflow.get_phase_prompt(): the prompt is chosen by the phase of the
\* workflow it is asked of
get_phase_prompt(p) == [prompt_of |-> p]

\* the text of a result of the orchestrator tool
Reports(what, previous_phase, new_phase) ==
    [what |-> what, previous_phase |-> previous_phase, new_phase |-> new_phase,
     prompt |-> get_phase_prompt(new_phase)]

\* WorkflowOrchestratorTool.execute for the actions that call the workflow:
\* the tool's workflow, the memory directory and the ToolResult afterwards
WorkflowOrchestratorExecuteResult(action, url, has_changes, modified) ==
    LET workflow == _get_workflow
        previous_phase == workflow.phase
        refused(what) ==
            [state |-> workflow, files |-> memory_files,
             result |-> error_result(Reports(what, previous_phase, previous_phase), "")]
    IN  CASE action = "start" ->
               IF url = NoUrl THEN refused("issue_url is required")
               ELSE IF workflow.issue_url /= NoUrl /\ workflow.issue_number /= <<>>
               THEN refused("Workflow already started")
               ELSE LET after == StartResult(workflow, url)
                    IN  [state |-> after.state, files |-> after.files,
                         result |->
                            IF after.outcome = "raised"
                            THEN error_result(Reports("Workflow error", previous_phase,
                                                      after.state.phase), "")
                            ELSE success_result(Reports("Workflow started",
                                                        previous_phase,
                                                        after.state.phase))]
          [] action = "resume" ->
               [state |-> resume(workflow), files |-> memory_files,
                result |-> success_result(Reports("Workflow resumed", previous_phase,
                                                  resume(workflow).phase))]
          [] OTHER ->
               LET after == MarkPhaseCompleteResult(workflow, previous_phase,
                                                    has_changes, modified)
               IN  [state |-> after.state, files |-> after.files,
                    result |->
                       IF after.outcome = "raised"
                       THEN error_result(Reports("Cannot mark phase complete",
                                                 previous_phase, after.state.phase), "")
                       ELSE success_result(Reports("Transitioned to", previous_phase,
                                                   after.state.phase))]

\* oss_fix.run_fix: the CLI makes its workflow and starts it
RunFixStart ==
    /\ wf_call = NoCall
    /\ Start

StartReturned == [op |-> "start", outcome |-> "returned"]

\* the agent of run_fix runs the orchestrator tool; the CLI has not seen the
\* result yet.  run_fix runs the agent when its start() returned.
WorkflowOrchestratorExecute ==
    /\ wf_call = StartReturned
    /\ IF tool_result = <<>> THEN TRUE ELSE tool_result.seen
    /\ \E action \in {"start", "resume", "mark_phase_complete"},
          url \in IssueUrls \cup {NoUrl}, has_changes \in BOOLEAN,
          modified \in BOOLEAN :
           LET ran == WorkflowOrchestratorExecuteResult(action, url, has_changes,
                                                        has_changes /\ modified)
           IN  /\ _workflows' = <<ran.state>>
               /\ memory_files' = ran.files
               /\ tool_result' = [tool |-> "workflow_orchestrator", action |-> action,
                                  has_changes |-> has_changes,
                                  modified |-> has_changes /\ modified,
                                  result |-> ran.result, seen |-> FALSE]
               /\ UNCHANGED <<phase, issue_url, issue_number, branch_name,
                              changes_made, wf_call, continue_message, loaded, saved,
                              branches, active_branch, remote_heads,
                              pull_requests, cmVars,
                              agentVars, lifeVars>>

\* the phases the continuation message counts down from
CountedPhases == {"repository_understanding", "issue_intake", "planning",
                  "implementation", "verification", "validation", "commit_and_pr"}

\* oss_fix.run_fix on TOOL_CALL_COMPLETE of a successful workflow_orchestrator
\* call whose text holds "Transitioned to:": the message it injects is made
\* of the phase named in the text and the prompt of the CLI's own workflow.
\* Counting the remaining phases raises for "complete", and then nothing is
\* injected.
RunFixToolCallComplete ==
    /\ IF tool_result = <<>> THEN FALSE ELSE ~tool_result.seen
    /\ tool_result' = [tool_result EXCEPT !.seen = TRUE]
    /\ continue_message' =
          IF /\ tool_result.result.success
             /\ tool_result.result.output.what = "Transitioned to"
             /\ tool_result.result.output.new_phase \in CountedPhases
          THEN <<[new_phase |-> tool_result.result.output.new_phase,
                  new_phase_prompt |-> get_phase_prompt(phase)]>>
          ELSE continue_message
    /\ UNCHANGED <<phase, issue_url, issue_number, branch_name, changes_made,
                   wf_call, _workflows, memVars, branches, active_branch,
                   remote_heads, pull_requests, cmVars, agentVars, lifeVars>>

\* a workflow on a repository that has its default branch checked out or
\* the branch of issue 21
InitWorkflow ==
    /\ ContextIdle
    /\ WorkflowIdle
    /\ MemoryIdle
    /\ branches \in {{Main}, {Main, FixBranch}}
    /\ active_branch \in branches
    /\ remote_heads = <<>>
    /\ pull_requests = {}
    /\ tool_result = <<>>

NextWorkflow ==
    \/ Start
    \/ MarkPhaseComplete

SpecWorkflow == InitWorkflow /\ [][NextWorkflow]_vars

\* `oss-dev fix`: the CLI starts its workflow, then the agent calls the
\* orchestrator tool and the CLI handles each result
NextFix ==
    \/ RunFixStart
    \/ WorkflowOrchestratorExecute
    \/ RunFixToolCallComplete

SpecFix == InitWorkflow /\ [][NextFix]_vars

(***************************************************************************)
(* Claims about the workflow.                                              *)
(***************************************************************************)
MarkReturned == [op |-> "mark_phase_complete", outcome |-> "returned"]

\* C21: a mark_phase_complete call that returns moves the workflow from its
\* phase to the next phase of the fixed order, and at complete it stays at
\* complete; a call that raises leaves the phase as it was.  So no sequence
\* of calls skips a phase or goes back.
C21_MarkMovesToTheNextPhase ==
    [][wf_call'.op = "mark_phase_complete"
         => IF wf_call' = MarkReturned /\ phase /= "complete"
            THEN phase' = phase_order[PhaseIndex(phase) + 1]
            ELSE phase' = phase]_vars

\* the workflow was marked from planning to implementation
C21_Witness ==
    /\ wf_call = MarkReturned
    /\ phase = "implementation"
    /\ \E b \in DOMAIN memory_files :
        "planning" \in memory_files[b].completed_steps

\* the workflow was marked complete at its last phase and stays there
C21_StaysComplete ==
    /\ wf_call = MarkReturned
    /\ phase = "complete"

\* C22: after start(issue_url) returned the workflow is at planning and its
\* state holds the issue URL and the number parsed from it
C22_StartLeavesTheWorkflowAtPlanning ==
    wf_call = [op |-> "start", outcome |-> "returned"]
        => /\ phase = "planning"
           /\ IsIssueUrl(issue_url)
           /\ issue_number = parse_issue_url(issue_url)

\* after start(issue_url) returned the state holds the issue URL and the
\* number parsed from it
C22_StartRecordsTheIssue ==
    wf_call = [op |-> "start", outcome |-> "returned"]
        => /\ IsIssueUrl(issue_url)
           /\ issue_number = parse_issue_url(issue_url)

(***************************************************************************)
(* C31: at the head of a turn the transcript is compacted only when        *)
(* needs_compression() holds and the summarizer gave a summary; then the   *)
(* request of the turn is the system prompt and the three synthetic        *)
(* messages, and the summarizer's usage becomes the latest usage and is    *)
(* added once to the total.  Otherwise the head of the turn leaves the     *)
(* transcript to the validation of get_messages() and both counters alone. *)
(***************************************************************************)
\* the head of a turn: from the top of the loop to the request
LoopHeadStep == pc = "loop_top" /\ pc' = "await_stream"

\* the head of the turn compacted the transcript with summary S
CompactedWith(S) ==
    /\ returned' = WireMessages(replace_with_summary(S))
    /\ Len(returned') = 4
    /\ returned'[1].role = "system"
    /\ messages' = replace_with_summary(S)
    /\ latest_usage' = SummaryUsage
    /\ total_usage' = total_usage + SummaryUsage
    /\ usage_log' = Append(usage_log,
                           UsageRecord(turn_count', "compression", SummaryUsage))

\* the head of the turn did not compact
NotCompacted ==
    /\ messages' \in validate_message_history(messages)
    /\ returned' = WireMessages(messages')
    /\ latest_usage' = latest_usage
    /\ total_usage' = total_usage
    /\ usage_log' = usage_log

C31_CompactionComesBeforeTheRequest ==
    [][LoopHeadStep =>
          IF needs_compression(latest_usage)
          THEN (\E S \in Summaries \ {""} : CompactedWith(S)) \/ NotCompacted
          ELSE NotCompacted]_vars

\* the request of a later turn is built from a transcript that was compacted
\* at the head of that turn, after usage had been recorded before
C31_Witness ==
    /\ pc = "await_stream"
    /\ returned = WireMessages(replace_with_summary(SummaryText))
    /\ Last(usage_log) = UsageRecord(turn_count, "compression", SummaryUsage)
    /\ Len(usage_log) > 1
    /\ total_usage = SumTokens(usage_log)

\* the summarizer gave no summary: the request is built from the transcript
\* as it was and the latest usage still asks for compression
C31_EmptySummary ==
    /\ pc = "await_stream"
    /\ needs_compression(latest_usage)
    /\ Len(messages) > 3

(***************************************************************************)
(* C32: the cumulative usage is the sum of the usages recorded, the latest *)
(* usage is the one recorded last; a turn that ran to its end recorded the *)
(* usage of its stream once if the stream delivered one, and a turn whose  *)
(* stream delivered none changed neither counter.                          *)
(***************************************************************************)
\* the usages the message-complete events of the current stream delivered
DeliveredUsage ==
    {stream[k].usage : k \in {n \in 1..Len(stream) :
                                 stream[n].type = "message_complete"
                                    /\ stream[n].usage /= <<>>}}

\* the add_usage calls of one kind made in turn t
RecordsOf(log, t, source) ==
    {n \in 1..Len(log) : log[n].turn = t /\ log[n].source = source}

\* the bookkeeping at the end of a turn: the step that ends it
EndOfTurnStep ==
    /\ pc \in {"check_tools", "results_inserted"}
    /\ pc' \in {"loop_top", "y_agent_end"}

C32_TotalIsTheSumOfTheRecordedUsages ==
    /\ [](/\ total_usage = SumTokens(usage_log)
          /\ usage_log /= <<>> => latest_usage = Last(usage_log).tokens
          /\ usage_log = <<>> => latest_usage = 0
          /\ \A t \in 1..turn_count :
                /\ Cardinality(RecordsOf(usage_log, t, "turn")) <= 1
                /\ Cardinality(RecordsOf(usage_log, t, "compression")) <= 1
          /\ EndOfTurn =>
                Cardinality(RecordsOf(usage_log, turn_count, "turn"))
                    = Cardinality(DeliveredUsage))
    /\ [][EndOfTurnStep =>
            IF DeliveredUsage = {}
            THEN latest_usage' = latest_usage /\ total_usage' = total_usage
            ELSE /\ <<latest_usage'>> \in DeliveredUsage
                 /\ total_usage' = total_usage + latest_usage']_vars

\* two turns and a compression between them have been recorded, and the
\* latest usage is smaller than an earlier one
C32_Witness ==
    /\ EndOfTurn
    /\ Len(usage_log) = 3
    /\ usage_log[2].source = "compression"
    /\ usage_log[1].tokens > usage_log[3].tokens
    /\ latest_usage = usage_log[3].tokens
    /\ total_usage = usage_log[1].tokens + usage_log[2].tokens + usage_log[3].tokens

\* a turn ended whose stream delivered no usage
C32_TurnWithoutUsage ==
    /\ EndOfTurn
    /\ tool_calls /= <<>>
    /\ DeliveredUsage = {}
    /\ usage_log /= <<>>

(***************************************************************************)
(* C33: in a turn the registry is invoked once for each named tool call    *)
(* the stream delivered, in the order delivered, and only when the stream  *)
(* has ended; a call is not invoked again after it raised, and a later     *)
(* turn invokes only the calls of its own stream.                          *)
(***************************************************************************)
\* the named tool calls of the current turn's stream, in order
NamedStreamCalls ==
    SelectSeq(stream, LAMBDA e : e.type = "tool_call_complete" /\ e.name /= "")

\* the registry invocations of the current turn, in order
TurnInvocationSeq == SelectSeq(invocations, LAMBDA r : r.turn = turn_count)

\* the current run() is in a turn
InTurn == turn_num > 0 /\ pc /= "idle"

C33_EachNamedCallIsInvokedOnce ==
    /\ [](InTurn =>
            /\ Len(TurnInvocationSeq) <= Len(NamedStreamCalls)
            /\ \A k \in 1..Len(TurnInvocationSeq) :
                  /\ TurnInvocationSeq[k].call_id = NamedStreamCalls[k].call_id
                  /\ TurnInvocationSeq[k].name = NamedStreamCalls[k].name
            /\ TurnInvocationSeq /= <<>> =>
                  /\ stream_pos = Len(stream)
                  /\ pc \notin {"await_stream", "y_text_delta", "y_stream_error"}
            /\ EndOfTurn => Len(TurnInvocationSeq) = Len(NamedStreamCalls))
    /\ [][invocations' /= invocations =>
            /\ pc = "y_tool_call_start"
            /\ Len(invocations') = Len(invocations) + 1
            /\ SubSeq(invocations', 1, Len(invocations)) = invocations
            /\ Last(invocations').turn = turn_count]_vars

\* a second turn invoked the call of its stream after the first turn had
\* invoked its two named calls, the first of which raised
C33_Witness ==
    /\ EndOfTurn
    /\ turn_num = 2
    /\ Len(TurnInvocationSeq) = 1
    /\ Len(invocations) = 3
    /\ invocations[1].raised
    /\ invocations[1].turn = turn_count - 1
    /\ invocations[2].turn = turn_count - 1
    /\ invocations[2].index = 2

(***************************************************************************)
(* C34: on every transcript the validation pass of get_messages() ends     *)
(* with a result, inserts one synthetic tool message for each call id of   *)
(* an assistant message that has no result directly behind it and nothing  *)
(* else, removes no message and keeps the messages in their order.         *)
(***************************************************************************)
\* the call ids of the assistant message at position k that have no result
\* in the tool block directly behind it
MissingCallIds(list, k) ==
    CallIds(list[k]) \
        {list[j].tool_call_id : j \in {m \in ToolBlock(list, k) :
                                           Truthy(list[m].tool_call_id)}}

\* the number of missing call ids of the assistant messages from position k on
RECURSIVE MissingFrom(_, _)
MissingFrom(list, k) ==
    IF k > Len(list) THEN 0
    ELSE (IF HasToolCalls(list[k]) THEN Cardinality(MissingCallIds(list, k)) ELSE 0)
            + MissingFrom(list, k + 1)

\* list a is list b with some elements of b left out
RECURSIVE IsSubsequence(_, _)
IsSubsequence(a, b) ==
    IF a = <<>> THEN TRUE
    ELSE IF b = <<>> THEN FALSE
    ELSE IF Head(a) = Head(b) THEN IsSubsequence(Tail(a), Tail(b))
    ELSE IsSubsequence(a, Tail(b))

\* the synthetic results of a transcript
SyntheticResults(list) ==
    {j \in 1..Len(list) : list[j].role = "tool" /\ list[j].content = NotProcessedOutput}

C34_ValidationOnlyInsertsMissingResults ==
    /\ validate_message_history(messages) /= {}
    /\ \A v \in validate_message_history(messages) :
          /\ IsSubsequence(messages, v)
          /\ Len(v) = Len(messages) + MissingFrom(messages, 1)
          /\ Cardinality(SyntheticResults(v))
                = Cardinality(SyntheticResults(messages)) + MissingFrom(messages, 1)
          /\ \A k \in 1..Len(v) :
                HasToolCalls(v[k]) =>
                    \A id \in CallIds(v[k]) : ResultsFor(v, k, id) /= {}

\* get_messages() filled two of three call ids in front of the result that
\* was there
C34_Witness ==
    /\ returned /= <<>>
    /\ Len(messages) = 5
    /\ messages[2].role = "assistant"
    /\ Len(messages[2].tool_calls) = 3
    /\ SyntheticResults(messages) = {3, 4}
    /\ messages[5].role = "tool"
    /\ messages[5].content = ManualResult

(***************************************************************************)
(* Claims about `oss-dev fix` and the orchestrator tool.                   *)
(***************************************************************************)
\* a step in which the orchestrator tool ran
OrchestratorRan == tool_result' /= tool_result /\ ~tool_result'.seen

\* the completion the tool asks for is one mark_phase_complete rejects:
\* implementation on main or master or without a changed tracked file,
\* planning on main or master with uncommitted changes
Rejected ==
    /\ tool_result'.action = "mark_phase_complete"
    /\ \/ /\ _get_workflow.phase = "implementation"
          /\ (active_branch \in {Main, Master} \/ ~tool_result'.modified)
       \/ /\ _get_workflow.phase = "planning"
          /\ active_branch \in {Main, Master}
          /\ tool_result'.has_changes

\* C35: when the orchestrator tool asks for a completion that
\* mark_phase_complete rejects, the tool answers with an error result that
\* reports no transition, and the phase and the changes_made flag of its
\* workflow and every saved branch memory are what they were before the call
C35_RejectedCompletionChangesNothing ==
    [][OrchestratorRan /\ Rejected
         => /\ ~tool_result'.result.success
            /\ tool_result'.result.error.what = "Cannot mark phase complete"
            /\ tool_result'.result.error.new_phase = _get_workflow.phase
            /\ _workflows' = <<_get_workflow>>
            /\ memory_files' = memory_files]_vars

\* the tool was asked to complete implementation on the issue's branch with
\* no changed tracked file, after the branch memory was written
C35_Witness ==
    /\ tool_result /= <<>>
    /\ tool_result.action = "mark_phase_complete"
    /\ ~tool_result.result.success
    /\ ~tool_result.modified
    /\ active_branch = FixBranch
    /\ _workflows[1].phase = "implementation"
    /\ ~_workflows[1].changes_made
    /\ _get_memory_file(FixBranch) \in DOMAIN memory_files

\* the tool was asked to complete planning on main with uncommitted changes
C35_PlanningOnMain ==
    /\ tool_result /= <<>>
    /\ tool_result.action = "mark_phase_complete"
    /\ ~tool_result.result.success
    /\ tool_result.has_changes
    /\ active_branch = Main
    /\ _workflows[1].phase = "planning"

\* the branch whose memory save_state() of the CLI's workflow writes
SavedBranch == IF branch_name /= NoBranch THEN branch_name ELSE active_branch

\* the memory of the CLI's workflow is what save_state() made it: nothing
\* was saved over it and the workflow has not changed since
StateIsSaved ==
    /\ _get_memory_file(SavedBranch) \in DOMAIN memory_files
    /\ memory_files[_get_memory_file(SavedBranch)].current_phase = phase
    /\ memory_files[_get_memory_file(SavedBranch)].issue_url = issue_url
    /\ memory_files[_get_memory_file(SavedBranch)].issue_number = issue_number

\* a step in which a new workflow of the orchestrator tool ran resume()
FreshResume ==
    /\ OrchestratorRan
    /\ tool_result'.action = "resume"
    /\ _workflows = <<>>

\* C36: when the CLI's workflow has saved its state, a new workflow on the
\* repository that calls resume() obtains the saved phase, issue URL and
\* issue number, whether or not state.branch_name is the checked-out branch
C36_ResumeObtainsTheSavedState ==
    [][FreshResume /\ StateIsSaved
         => /\ _workflows'[1].phase = phase
            /\ _workflows'[1].issue_url = issue_url
            /\ _workflows'[1].issue_number = issue_number]_vars

\* when the state was saved under the branch that is checked out, resume()
\* obtains it
C36_ResumeOnTheSavedBranch ==
    [][FreshResume /\ StateIsSaved /\ SavedBranch = active_branch
         => /\ _workflows'[1].phase = phase
            /\ _workflows'[1].issue_url = issue_url
            /\ _workflows'[1].issue_number = issue_number]_vars

\* a new workflow resumed on main while the state was saved under the
\* issue's branch
C36_ResumedOnAnotherBranch ==
    /\ tool_result /= <<>>
    /\ tool_result.action = "resume"
    /\ StateIsSaved
    /\ branch_name = FixBranch
    /\ active_branch = Main
    /\ _workflows[1].issue_url /= issue_url

\* a step in which the CLI handled the result of a completed phase
HandledTransition ==
    /\ tool_result' /= tool_result
    /\ tool_result'.seen
    /\ tool_result.action = "mark_phase_complete"
    /\ tool_result.result.success
    /\ tool_result.result.output.new_phase \in CountedPhases

\* C38: when the CLI handles the result of a phase completion made through
\* the orchestrator tool, its own workflow is in the phase the tool's
\* workflow is in, and the continuation message it injects holds the prompt
\* of the new phase that the tool reported
C38_TheCliFollowsTheTool ==
    [][HandledTransition
         => /\ phase = _workflows[1].phase
            /\ continue_message' =
                  <<[new_phase |-> tool_result.result.output.new_phase,
                     new_phase_prompt |->
                        get_phase_prompt(tool_result.result.output.new_phase)]>>]_vars

\* the continuation message names the phase the tool reported
C38_TheMessageNamesTheReportedPhase ==
    [][HandledTransition
         => /\ continue_message' /= <<>>
            /\ continue_message'[1].new_phase = tool_result.result.output.new_phase
            /\ continue_message'[1].new_phase = _workflows[1].phase]_vars

\* the CLI announced planning with the prompt of repository understanding
C38_StalePrompt ==
    /\ continue_message /= <<>>
    /\ continue_message[1].new_phase = "planning"
    /\ continue_message[1].new_phase_prompt = get_phase_prompt("repository_understanding")
    /\ _workflows[1].phase = "planning"
    /\ phase = "repository_understanding"

(***************************************************************************)
(* C39: the completed steps of the branch memories.                        *)
(***************************************************************************)
\* the steps the branch memory in file f gains in a step
NewSteps(f) ==
    memory_files'[f].completed_steps
        \ (IF f \in DOMAIN memory_files THEN memory_files[f].completed_steps
                                        ELSE {})

\* C39: a branch memory gains the step "Completed phase: X" only in a
\* mark_phase_complete call that returns and takes the workflow out of
\* phase X; start and the saves of a phase that is entered add no step
C39_OnlyLeftPhasesAreCompleted ==
    [][\A f \in DOMAIN memory_files' :
         \A X \in NewSteps(f) :
            /\ wf_call' = MarkReturned
            /\ phase = X
            /\ phase' /= X]_vars

\* start returned, and the phase the workflow is in is among the completed
\* steps of a branch memory
C39_EnteredPhaseIsRecorded ==
    /\ wf_call = [op |-> "start", outcome |-> "returned"]
    /\ phase = "repository_understanding"
    /\ \E f \in DOMAIN memory_files :
          "repository_understanding" \in memory_files[f].completed_steps

(***************************************************************************)
(* C37: the user's confirmation before a push or a pull request.           *)
(***************************************************************************)
\* a step in which git_push or create_pr ran
PushOrPrRan ==
    /\ tool_result' /= tool_result
    /\ tool_result'.tool \in {"git_push", "create_pr"}

\* C37: git_push and create_pr act only for an invocation whose session
\* holds the user's confirmation; for any other invocation they return an
\* error result and neither the remote nor the pull requests change
C37_NoPushOrPrWithoutConfirmation ==
    [][PushOrPrRan /\ tool_result'.session /= <<TRUE>>
         => /\ ~tool_result'.result.success
            /\ UNCHANGED <<branches, active_branch, remote_heads, pull_requests>>]_vars

\* an invocation whose session is there and holds no confirmation is
\* refused with the request to confirm, and nothing changes
C37_UnconfirmedSessionIsRefused ==
    [][PushOrPrRan /\ tool_result'.session = <<FALSE>>
         => /\ ~tool_result'.result.success
            /\ tool_result'.result.error.what = "confirmation required"
            /\ UNCHANGED <<branches, active_branch, remote_heads, pull_requests>>]_vars

\* git_push pushed for an invocation without a session
C37_PushedWithoutSession ==
    /\ tool_result /= <<>>
    /\ tool_result.tool = "git_push"
    /\ tool_result.session = <<>>
    /\ tool_result.result.success
    /\ remote_heads /= <<>>

\* create_pr made a pull request for an invocation without a session
C37_PrWithoutSession ==
    /\ tool_result /= <<>>
    /\ tool_result.tool = "create_pr"
    /\ tool_result.session = <<>>
    /\ tool_result.result.success
    /\ pull_requests /= {}

====
